---- MODULE Spec2Model ----
(***************************************************************************)
(* A model of rnaseqlib's orchestration engine:                            *)
(*   - cluster_utils/Mysge.py : waitUntilDone (polling a job id), launchJob*)
(*   - Pipeline.py            : Pipeline.run, run_on_samples,              *)
(*                              run_on_sample, map_reads and the           *)
(*                              skip-if-exists file-producing stages       *)
(*   - clip/clip_utils.py     : trim_clip_adaptors                         *)
(*                                                                         *)
(* Specifications:                                                         *)
(*   SpecWait / SpecWaitFair : one waitUntilDone call against a scheduler  *)
(*   SpecRun                 : Pipeline.run, the controller of a whole run *)
(*   Spec                    : one job running run_on_sample(label)        *)
(*   SpecCache               : a file-producing stage invoked repeatedly   *)
(*   SpecSubmit              : one launchJob call on qsub's answer         *)
(*   SpecFilter              : the passes of the two BAM filters           *)
(*   SpecMerge               : load_rpkms over the samples' tables         *)
(*   SpecStage               : one call of a stage of run_on_sample        *)
(*   SpecPost                : map_reads from the return of the alignment  *)
(*   SpecLoad                : load_pipeline_samples over a manifest       *)
(*   SpecJobs                : two samples' jobs preprocessing side by side*)
(*   SpecReuse               : the BAM filters run again over old outputs  *)
(*   SpecSettings            : Pipeline.__init__, settings to samples      *)
(***************************************************************************)
EXTENDS Integers, Sequences, FiniteSets, TLC

\* ------------------------------------------------------------------ bounds
\* Polls that do not end a waitUntilDone call, per call.
MaxPolls == 3
\* Invocations of the stage under test.
MaxCalls == 2

\* ------------------------------------------------------- program constants
\* Mysge.py:4  def waitUntilDone(jobID, sleep=1)
SleepInterval == 1

VARIABLES
    sched,      \* the scheduler's jobs, job id = index: [cmd, state]
    wpc,        \* waitUntilDone: "idle" | "polling" | "returned" | "raised"
    waitJob,    \* its jobID argument (0 while idle)
    waitSleep,  \* its sleep argument
    pollLog,    \* what each qstat poll of the current call reported
    sleepLog,   \* the duration of each time.sleep of the current call
    samples,    \* Pipeline.samples: the label of each Sample, in order
    rpc,        \* Pipeline.run: where the controller is
    job_ids,    \* the handles run_on_samples has collected
    waited,     \* the handles wait_on_jobs was called with
    waitIdx,    \* wait_on_jobs: index of the handle being waited on
    ctlLog,     \* the calls the controller has made, in order
    cfg,        \* the settings and the environment of a per-sample run
    label,      \* run_on_sample: its argument
    spc,        \* run_on_sample: where it is
    sample,     \* the Sample object being processed
    mstep,      \* map_reads: index of the next post-processing step
    trace,      \* the stage calls, returns and raises of run_on_sample
    exc,        \* the exception caught by run_on_sample ("none": none)
    logged,     \* the exceptions given to logger.exception
    propagated, \* the exception run_on_sample raised to its caller
    files,      \* the files that exist
    launchCall, \* map_reads: the launch_and_wait call it made
    bamExisted, \* whether the alignment file existed when map_reads began
    stageUnderTest, \* the file-producing stage that is invoked repeatedly
    callLog,    \* what each of its invocations found and did
    opLog,      \* the collaborator calls the stages of run_on_sample made
    fnArg,      \* the argument of the function under test
    fnRes       \* <<its result>> (<<>> before the call)

waitVars == <<wpc, waitJob, waitSleep, pollLog, sleepLog>>
runVars == <<rpc, job_ids, waited, waitIdx, ctlLog>>
sampleVars == <<cfg, label, spc, sample, mstep, trace, exc, logged,
                propagated, launchCall, bamExisted, opLog>>
cacheVars == <<stageUnderTest, callLog, fnArg, fnRes>>
vars == <<sched, samples, files, waitVars, runVars, sampleVars, cacheVars>>

\* ------------------------------------------------------------ the scheduler
\* A job is queued ("qw"), running ("r") or no longer known ("gone").
JobStates == {"qw", "r", "gone"}

JobPresent(j) == j \in 1..Len(sched) /\ sched[j].state # "gone"

\* What `qstat -j <id>` can answer: the truth about the job, or a failure to
\* reach the scheduler.
QstatKinds == {"present", "absent", "error"}

QstatReports(j) ==
    IF JobPresent(j) THEN {"present", "error"} ELSE {"absent", "error"}

\* The phrases found in the stderr of `qstat -j <id>` (output[1]).
QstatStderr(kind) ==
    CASE kind = "present" -> {}
      [] kind = "absent"  -> {"Following jobs do not exist:"}
      [] kind = "error"   -> {"error: commlib error: got select error"}

\* A job leaves the scheduler when it ends; it never comes back.
JobProgress(j) ==
    CASE sched[j].state = "qw" -> "r"
      [] sched[j].state = "r"  -> "gone"
      [] OTHER                 -> "gone"

\* ----------------------------------------------------------- waitUntilDone
\* Mysge.py:9-11: break when stderr names the job as not existing, else sleep.
PollOutcomeBreaksOnPresent(stderr) ==
    IF stderr = {} THEN "break" ELSE "sleep"

PollOutcomeTimesOut(stderr) ==
    IF "Following jobs do not exist:" \in stderr \/ Len(pollLog) >= 1
    THEN "break" ELSE "sleep"

PollOutcomeErrorIsFatal(stderr) ==
    IF "Following jobs do not exist:" \in stderr THEN "break"
    ELSE IF stderr = {} THEN "sleep" ELSE "raise"

PollOutcome(stderr) ==
    IF "Following jobs do not exist:" \in stderr THEN "break" ELSE "sleep"

\* Mysge.py:11: time.sleep(sleep), the same interval after every poll.
SleepDuration(n) == waitSleep

\* One iteration of the loop of waitUntilDone whose poll is answered `kind`.
WaitPoll(kind) ==
    /\ wpc = "polling"
    /\ kind \in QstatReports(waitJob)
    /\ kind # "absent" => Len(pollLog) < MaxPolls
    /\ pollLog' = Append(pollLog, kind)
    /\ LET out == PollOutcome(QstatStderr(kind)) IN
         /\ wpc' = CASE out = "break" -> "returned"
                     [] out = "sleep" -> "polling"
                     [] OTHER         -> "raised"
         /\ sleepLog' = IF out = "sleep"
                        THEN Append(sleepLog, SleepDuration(Len(pollLog)))
                        ELSE sleepLog
    /\ UNCHANGED <<waitJob, waitSleep>>

callerVars == <<sched, samples, files, runVars, sampleVars, cacheVars>>

WaitPollPresent == WaitPoll("present") /\ UNCHANGED callerVars
WaitPollError   == WaitPoll("error") /\ UNCHANGED callerVars
WaitPollAbsent  == WaitPoll("absent") /\ UNCHANGED callerVars

\* The state of a waitUntilDone(jobID, sleep) call on entry.
WaitCall(jobID, sleep) ==
    /\ wpc' = "polling"
    /\ waitJob' = jobID
    /\ waitSleep' = sleep
    /\ pollLog' = <<>>
    /\ sleepLog' = <<>>

\* --------------------------------------------------------- names and paths
\* A file name is the sequence of its pieces, "." being a piece of its own:
\* "accepted_hits.bam" is <<"accepted_hits", ".", "bam">>.  A path is a
\* directory (a sequence of directory names) and a file name.
IsPrefix(pat, str) == Len(pat) <= Len(str) /\ SubSeq(str, 1, Len(pat)) = pat

\* str.split(pat)[0]
RECURSIVE BeforeFirst(_, _)
BeforeFirst(str, pat) ==
    IF str = <<>> \/ IsPrefix(pat, str) THEN <<>>
    ELSE <<Head(str)>> \o BeforeFirst(Tail(str), pat)

\* str.replace(pat, "")
RECURSIVE Remove(_, _)
Remove(str, pat) ==
    IF str = <<>> THEN <<>>
    ELSE IF IsPrefix(pat, str)
         THEN Remove(SubSeq(str, Len(pat) + 1, Len(str)), pat)
         ELSE <<Head(str)>> \o Remove(Tail(str), pat)

BamExt == <<".", "bam">>

\* name[0:-4] of a name that ends in ".bam"
DropBamExt(name) == SubSeq(name, 1, Len(name) - Len(BamExt))

Path(dir, name) == [dir |-> dir, name |-> name]
NonePath == Path(<<>>, <<>>)
IsFile(fs, path) == path \in fs

OutputDir == "outdir"
SettingsFilename == "settings.txt"
\* Pipeline.py:172-176, 286-290: pipeline_outdirs
MappingDir == <<OutputDir, "mapping">>
RawdataDir == <<OutputDir, "rawdata">>
AdaptorsFilename == Path(<<"indir">>, <<"adaptors", ".", "txt">>)

\* ------------------------------------------------- Sample and SampleRawdata
\* Pipeline.py:92-105
SampleRawdata(lbl, seq_filename, data_type) ==
    [label |-> lbl,
     seq_filename |-> seq_filename,
     reads_filename |-> seq_filename,
     sample_type |-> data_type]

Sample_TypeUnset(lbl, rawdata, isList) ==
    [label |-> lbl,
     qc |-> "None",
     rawdata |-> rawdata,
     paired |-> isList,
     sample_type |-> "None",
     bowtie_filename |-> NonePath,
     tophat_filename |-> NonePath,
     processed_bam_dir |-> <<>>,
     bam_filename |-> NonePath,
     unique_bam_filename |-> NonePath,
     ribosub_bam_filename |-> NonePath,
     rmdups_bam_filename |-> NonePath,
     rmdups_unique_bam_filename |-> NonePath]

\* Pipeline.py:34-71.  rawdata is kept as a sequence; `paired` tells whether
\* the Python object is a list (then sample.rawdata.<attr> raises).
Sample(lbl, rawdata, isList) ==
    [label |-> lbl,
     qc |-> "None",
     rawdata |-> rawdata,
     paired |-> isList,
     sample_type |-> rawdata[1].sample_type,
     bowtie_filename |-> NonePath,
     tophat_filename |-> NonePath,
     processed_bam_dir |-> <<>>,
     bam_filename |-> NonePath,
     unique_bam_filename |-> NonePath,
     ribosub_bam_filename |-> NonePath,
     rmdups_bam_filename |-> NonePath,
     rmdups_unique_bam_filename |-> NonePath]

NoSample == Sample("", <<SampleRawdata("", NonePath, "None")>>, FALSE)

HasAttr(obj, attr) == attr \in DOMAIN obj

SeqFile(lbl, k) == Path(<<"indir">>, <<lbl, "_", k, ".", "fastq">>)

\* The Sample that load_pipeline_samples builds for a label: one raw file in
\* single-end mode, a list of the group's raw files in paired mode.
BuildSample(lbl, data_type, paired) ==
    IF paired
    THEN Sample(lbl, <<SampleRawdata(lbl, SeqFile(lbl, "1"), data_type),
                       SampleRawdata(lbl, SeqFile(lbl, "2"), data_type)>>, TRUE)
    ELSE Sample(lbl, <<SampleRawdata(lbl, SeqFile(lbl, "1"), data_type)>>, FALSE)

get_sample_by_label_FirstIfMissing(lbl) ==
    IF \E i \in 1..Len(samples) : samples[i] = lbl
    THEN CHOOSE i \in 1..Len(samples) :
            samples[i] = lbl /\ \A k \in 1..(i - 1) : samples[k] # lbl
    ELSE 1

\* Pipeline.py:519-526: the first Sample with that label (0: None).
get_sample_by_label(lbl) ==
    IF \E i \in 1..Len(samples) : samples[i] = lbl
    THEN CHOOSE i \in 1..Len(samples) :
            samples[i] = lbl /\ \A k \in 1..(i - 1) : samples[k] # lbl
    ELSE 0

\* ------------------------------------------------ the file-producing stages
\* Each takes the files that exist and whether the external command it may
\* run succeeds, and yields the files afterwards, the path it returns,
\* whether it ran the underlying operation, and the exception it raised.
Result(fs, path, ran, e) == [files |-> fs, path |-> path, ran |-> ran, exc |-> e]

\* Pipeline.py:741-749
index_bam_Always(fs, bam, ok) ==
    LET index_filename == Path(bam.dir, bam.name \o <<".", "bai">>)
    IN  Result(IF ok /\ IsFile(fs, bam) THEN fs \cup {index_filename} ELSE fs,
               index_filename, TRUE, "none")

index_bam(fs, bam, ok) ==
    LET index_filename == Path(bam.dir, bam.name \o <<".", "bai">>)
    IN  IF ~IsFile(fs, index_filename)
        THEN Result(IF ok /\ IsFile(fs, bam) THEN fs \cup {index_filename} ELSE fs,
                    index_filename, TRUE, "none")
        ELSE Result(fs, index_filename, FALSE, "none")

\* Pipeline.py:752-773
sort_and_index_bam(fs, bam, ok) ==
    LET bam_basename == BeforeFirst(bam.name, BamExt)
        sorted_bam_filename == Path(bam.dir, bam_basename \o <<".", "sorted">>)
        expected_bam_filename ==
            Path(bam.dir, sorted_bam_filename.name \o BamExt)
        ran == ~IsFile(fs, expected_bam_filename)
        sorted == IF ran /\ ok /\ IsFile(fs, bam)
                  THEN fs \cup {expected_bam_filename} ELSE fs
    IN  Result(index_bam(sorted, expected_bam_filename, ok).files,
               expected_bam_filename, ran, "none")

\* Pipeline.py:684-711
rmdups_bam(fs, bam, output_dir, ok) ==
    LET output_basename ==
            Remove(Remove(bam.name, BamExt), <<".", "sorted", ".">>)
        rmdups_bam_filename ==
            Path(output_dir, output_basename \o <<".", "rmdups", ".", "bam">>)
    IN  IF IsFile(fs, rmdups_bam_filename)
        THEN Result(fs, rmdups_bam_filename, FALSE, "none")
        ELSE Result(IF ok /\ IsFile(fs, bam)
                    THEN fs \cup {rmdups_bam_filename} ELSE fs,
                    rmdups_bam_filename, TRUE, "none")

get_unique_reads_NoInputCheck(fs, smp) ==
    LET unique_bam_filename ==
            Path(smp.processed_bam_dir,
                 DropBamExt(smp.bam_filename.name) \o <<".", "unique", ".", "bam">>)
    IN  IF ~IsFile(fs, unique_bam_filename)
        THEN Result(fs \cup {unique_bam_filename}, unique_bam_filename,
                    TRUE, "none")
        ELSE Result(fs, unique_bam_filename, FALSE, "none")

\* Pipeline.py:829-874: the record-writing pass creates the file it opens.
get_unique_reads(fs, smp) ==
    LET unique_bam_filename ==
            Path(smp.processed_bam_dir,
                 DropBamExt(smp.bam_filename.name) \o <<".", "unique", ".", "bam">>)
    IN  IF ~IsFile(fs, smp.bam_filename)
        THEN Result(fs, NonePath, FALSE, "SystemExit")
        ELSE IF ~IsFile(fs, unique_bam_filename)
             THEN Result(fs \cup {unique_bam_filename}, unique_bam_filename,
                         TRUE, "none")
             ELSE Result(fs, unique_bam_filename, FALSE, "none")

\* Pipeline.py:776-826: pysam.Samfile(..., "rb") raises on a missing file.
get_ribosub_bam_reads(fs, smp) ==
    LET ribosub_bam_filename ==
            Path(smp.processed_bam_dir,
                 DropBamExt(smp.bam_filename.name) \o <<".", "ribosub", ".", "bam">>)
    IN  IF ~IsFile(fs, smp.bam_filename)
        THEN Result(fs, NonePath, FALSE, "IOError")
        ELSE IF ~IsFile(fs, ribosub_bam_filename)
             THEN Result(fs \cup {ribosub_bam_filename}, ribosub_bam_filename,
                         TRUE, "none")
             ELSE Result(fs, ribosub_bam_filename, FALSE, "none")

\* utils.trim_fastq_ext: the name without its .fastq extension.
trim_fastq_ext(name) == BeforeFirst(name, <<".", "fastq">>)

trim_clip_adaptors_NoAdaptorsCheck(fs, fastq_filename, adaptors_filename, output_dir, cutadapt, ok) ==
    LET output_basename == trim_fastq_ext(fastq_filename.name)
        output_filename ==
            Path(output_dir,
                 output_basename \o <<"_trimmed", ".", "fastq", ".", "gz">>)
    IN  IF IsFile(fs, output_filename)
        THEN Result(fs, output_filename, FALSE, "none")
        ELSE Result(IF cutadapt /\ ok /\ IsFile(fs, fastq_filename)
                       /\ IsFile(fs, adaptors_filename)
                    THEN fs \cup {output_filename} ELSE fs,
                    output_filename, TRUE, "none")

\* clip_utils.py:12-57.  cutadapt: whether utils.which found it; the command
\* built with a missing cutadapt still runs, and fails.
trim_clip_adaptors(fs, fastq_filename, adaptors_filename, output_dir, cutadapt, ok) ==
    LET output_basename == trim_fastq_ext(fastq_filename.name)
        output_filename ==
            Path(output_dir,
                 output_basename \o <<"_trimmed", ".", "fastq", ".", "gz">>)
    IN  IF IsFile(fs, output_filename)
        THEN Result(fs, output_filename, FALSE, "none")
        ELSE IF ~IsFile(fs, adaptors_filename)
             THEN Result(fs, NonePath, FALSE, "SystemExit")
             ELSE Result(IF cutadapt /\ ok /\ IsFile(fs, fastq_filename)
                         THEN fs \cup {output_filename} ELSE fs,
                         output_filename, TRUE, "none")

\* ------------------------------------------------------------ run_on_sample
Mappers == {"bowtie", "tophat", "bwa"}
DataTypes == {"rnaseq", "riboseq", "clipseq"}

Call(stage) == [ev |-> "call", stage |-> stage]
Return(stage) == [ev |-> "return", stage |-> stage]
Raise(stage) == [ev |-> "raise", stage |-> stage]

\* Pipeline.py:582-593: the stages of run_on_sample, in the order it calls them.
RunOnSampleStagesQcFirst ==
    <<"preprocess_reads", "run_qc", "map_reads", "run_analysis">>

RunOnSampleStages ==
    <<"preprocess_reads", "map_reads", "run_qc", "run_analysis">>

StageAfter(stage) ==
    LET i == CHOOSE k \in 1..Len(RunOnSampleStages) : RunOnSampleStages[k] = stage
    IN  IF i = Len(RunOnSampleStages) THEN "returned" ELSE RunOnSampleStages[i + 1]

\* Pipeline.py:594-597: the handler logs the exception and raises it again.
ExceptHandlerSwallows(e) == [logged |-> <<e>>, raised |-> "none"]

ExceptHandler(e) == [logged |-> <<e>>, raised |-> e]

\* What a stage did: the Sample it returns, the files afterwards, the
\* exception it raised, and the calls it made to its collaborators, in order.
StageResultOf(smp, fs, e, calls) ==
    [sample |-> smp, files |-> fs, exc |-> e, calls |-> calls]

StageResult(smp, fs, e) == StageResultOf(smp, fs, e, <<>>)

SetReads(smp, path) == [smp EXCEPT !.rawdata[1].reads_filename = path]

ReadsOf(smp) == [i \in 1..Len(smp.rawdata) |-> smp.rawdata[i].reads_filename]

\* ribo_utils.trim_polyA_ends: the file it writes into the rawdata directory.
trim_polyA_ends(seq_filename, output_dir) ==
    Path(output_dir, trim_fastq_ext(seq_filename.name) \o <<"_trimmed_polyA", ".", "fastq">>)

\* Pipeline.py:478-516.  ok: the external tools of the stage succeed.  calls
\* are the preprocessing tools invoked.  sample.rawdata is a list for a paired
\* sample, which has no seq_filename attribute (483-492).  The clipseq branch
\* opens with clip_utils.check_clip_utils (495), a name clip/clip_utils.py
\* does not define (neither is collapse_clip_reads, 504): the attribute lookup
\* raises before the adaptors are trimmed.
preprocess_reads(smp, fs, cutadapt, ok) ==
    IF smp.sample_type = "riboseq"
    THEN IF smp.paired THEN StageResultOf(smp, fs, "AttributeError", <<>>)
         ELSE IF ~ok THEN StageResultOf(smp, fs, "Exception", <<"trim_polyA_ends">>)
         ELSE LET trimmed_filename ==
                      trim_polyA_ends(smp.rawdata[1].seq_filename, RawdataDir)
              IN  StageResultOf(SetReads(smp, trimmed_filename),
                                fs \cup {trimmed_filename}, "none",
                                <<"trim_polyA_ends">>)
    ELSE IF smp.sample_type = "clipseq"
    THEN StageResultOf(smp, fs, "AttributeError", <<>>)
    ELSE StageResultOf(smp, fs, "none", <<>>)

\* mapper_wrappers.get_tophat_mapping_cmd / get_bowtie_mapping_cmd: the file
\* the aligner writes.
TophatOut(lbl) == Path(MappingDir \o <<lbl>>, <<"accepted_hits", ".", "bam">>)
BowtieOut(output_filename) ==
    Path(output_filename.dir, output_filename.name \o BamExt)

\* Pipeline.py:608-652: the aligner's invocation and the launch_and_wait call:
\* the Sample at the call, the reads the command maps, unless_exists, and the
\* value of sample.bam_filename once launch_and_wait has returned.
Launch(smp, reads, unless_exists, bam, e) ==
    [sample |-> smp, reads |-> reads, unless_exists |-> unless_exists,
     bam |-> bam, exc |-> e]

map_reads_launch(smp, mapper) ==
    IF mapper = "bowtie"
    THEN LET output_filename == Path(MappingDir, <<smp.label>>)
             bowtie_output_filename == BowtieOut(output_filename)
         IN  IF ~HasAttr(smp, "reads_filename")
             THEN Launch(smp, <<>>, NonePath, NonePath, "AttributeError")
             ELSE Launch([smp EXCEPT !.bowtie_filename = bowtie_output_filename,
                                     !.bam_filename = bowtie_output_filename],
                         <<smp.reads_filename>>, output_filename,
                         bowtie_output_filename, "none")
    ELSE IF mapper = "tophat"
    THEN Launch(smp, ReadsOf(smp), TophatOut(smp.label), TophatOut(smp.label),
                "none")
    ELSE Launch(smp, <<>>, NonePath, NonePath, "SystemExit")

\* The file the configured aligner is to produce for the sample.
TargetAlignmentFile(smp, mapper) ==
    IF mapper = "bowtie" THEN BowtieOut(Path(MappingDir, <<smp.label>>))
    ELSE TophatOut(smp.label)

\* cluster.Cluster.launch_and_wait(cmd, name, unless_exists): returns at once,
\* submitting nothing, when unless_exists names a path that exists.
LaunchSkipped(fs, unless_exists) == IsFile(fs, unless_exists)

NoLaunch ==
    [called |-> FALSE, reads |-> <<>>, unless_exists |-> NonePath, submit |-> "-"]

MapPostSteps_SortFirst(sample_type) ==
    <<"index_bam", "make_dir", "sort_bam", "get_unique_reads",
      "get_ribosub_bam_reads", "sort_unique", "sort_ribosub">> \o
    (IF sample_type = "clipseq"
     THEN <<"rmdups_bam", "rmdups_unique", "sort_rmdups", "sort_rmdups_unique">>
     ELSE <<"postprocess_clip_bams">>)

MapPostSteps_RmdupsBeforeSort(sample_type) ==
    <<"index_bam", "make_dir", "get_unique_reads", "get_ribosub_bam_reads">> \o
    (IF sample_type = "clipseq"
     THEN <<"rmdups_bam", "rmdups_unique", "sort_bam", "sort_unique",
            "sort_ribosub", "sort_rmdups", "sort_rmdups_unique">>
     ELSE <<"sort_bam", "sort_unique", "sort_ribosub", "postprocess_clip_bams">>)

\* Pipeline.py:656-680, 714-738: the post-processing calls of map_reads.
MapPostSteps(sample_type) ==
    <<"index_bam", "make_dir", "get_unique_reads", "get_ribosub_bam_reads",
      "sort_bam", "sort_unique", "sort_ribosub">> \o
    (IF sample_type = "clipseq"
     THEN <<"rmdups_bam", "rmdups_unique", "sort_rmdups", "sort_rmdups_unique">>
     ELSE <<"postprocess_clip_bams">>)

MapPostStep(step, smp, fs, ok) ==
    CASE step = "index_bam" ->
            StageResult(smp, index_bam(fs, smp.bam_filename, ok).files, "none")
      [] step = "make_dir" ->
            StageResult([smp EXCEPT !.processed_bam_dir =
                             MappingDir \o <<smp.label, "processed_bams">>],
                        fs, "none")
      [] step = "get_unique_reads" ->
            LET r == get_unique_reads(fs, smp)
            IN  StageResult([smp EXCEPT !.unique_bam_filename =
                                 IF r.exc = "none" THEN r.path ELSE @],
                            r.files, r.exc)
      [] step = "get_ribosub_bam_reads" ->
            LET r == get_ribosub_bam_reads(fs, smp)
            IN  StageResult([smp EXCEPT !.ribosub_bam_filename =
                                 IF r.exc = "none" THEN r.path ELSE @],
                            r.files, r.exc)
      [] step = "sort_bam" ->
            LET r == sort_and_index_bam(fs, smp.bam_filename, ok)
            IN  StageResult([smp EXCEPT !.bam_filename = r.path], r.files, "none")
      [] step = "sort_unique" ->
            LET r == sort_and_index_bam(fs, smp.unique_bam_filename, ok)
            IN  StageResult([smp EXCEPT !.unique_bam_filename = r.path],
                            r.files, "none")
      [] step = "sort_ribosub" ->
            LET r == sort_and_index_bam(fs, smp.ribosub_bam_filename, ok)
            IN  StageResult([smp EXCEPT !.ribosub_bam_filename = r.path],
                            r.files, "none")
      [] step = "rmdups_bam" ->
            LET r == rmdups_bam(fs, smp.bam_filename, smp.processed_bam_dir, ok)
            IN  StageResult([smp EXCEPT !.rmdups_bam_filename = r.path],
                            r.files, "none")
      [] step = "rmdups_unique" ->
            LET r == rmdups_bam(fs, smp.unique_bam_filename,
                                smp.processed_bam_dir, ok)
            IN  StageResult([smp EXCEPT !.rmdups_unique_bam_filename = r.path],
                            r.files, "none")
      [] step = "sort_rmdups" ->
            LET r == sort_and_index_bam(fs, smp.rmdups_bam_filename, ok)
            IN  StageResult([smp EXCEPT !.rmdups_bam_filename = r.path],
                            r.files, "none")
      [] step = "sort_rmdups_unique" ->
            LET r == sort_and_index_bam(fs, smp.rmdups_unique_bam_filename, ok)
            IN  StageResult([smp EXCEPT !.rmdups_unique_bam_filename = r.path],
                            r.files, "none")
      [] OTHER -> StageResult(smp, fs, "none")

QcFile(lbl) == Path(<<OutputDir, "qc", lbl>>, <<lbl, ".", "qc", ".", "txt">>)
RpkmFile(lbl) == Path(<<OutputDir, "analysis", "rpkm", lbl>>, <<"rpkm", ".", "txt">>)

run_qc_AlwaysComputes(smp, fs, qc_loaded, ok) ==
    IF ~ok THEN StageResultOf(smp, fs, "Exception", <<"compute_qc">>)
    ELSE StageResultOf([smp EXCEPT !.qc = "qc_obj"],
                       fs \cup {QcFile(smp.label)}, "none",
                       <<"compute_qc", "output_qc">>)

\* Pipeline.py:877-893.  ok: compute_qc and output_qc do not raise.  calls are
\* the methods of the sample's quality-control object that are invoked.
run_qc(smp, fs, qc_loaded, ok) ==
    IF qc_loaded THEN StageResultOf([smp EXCEPT !.qc = "qc_obj"], fs, "none", <<>>)
    ELSE IF ~ok THEN StageResultOf(smp, fs, "Exception", <<"compute_qc">>)
    ELSE StageResultOf([smp EXCEPT !.qc = "qc_obj"],
                       fs \cup {QcFile(smp.label)}, "none",
                       <<"compute_qc", "output_qc">>)

run_analysis_SkipsExisting(smp, fs, ok) ==
    IF RpkmFile(smp.label) \in fs
    THEN StageResultOf(smp, fs, "none", <<>>)
    ELSE IF ~ok THEN StageResultOf(smp, fs, "Exception", <<"output_rpkm">>)
    ELSE IF smp.sample_type = "clipseq"
         THEN StageResultOf(smp, fs \cup {RpkmFile(smp.label)}, "AttributeError",
                            <<"output_rpkm", "output_events_mapping">>)
         ELSE StageResultOf(smp, fs \cup {RpkmFile(smp.label)}, "none",
                            <<"output_rpkm">>)

\* Pipeline.py:1089-1106 with output_rpkms (952-964), output_events_mapping
\* (967-1016), output_clusters (1019-1078) and output_motifs (1081-1086).
\* ok: the quantification and the region tools do not raise.  calls are the
\* external steps invoked.  output_rpkms calls the quantification with no
\* test for an earlier output.  For clipseq, output_clusters reaches
\* clip_utils.output_clip_clusters (1049), a name clip/clip_utils.py does not
\* define, before any cluster is written; output_motifs, further on, is
\* defined without a sample parameter (1081) and called with one (1105).
run_analysis(smp, fs, ok) ==
    IF ~ok THEN StageResultOf(smp, fs, "Exception", <<"output_rpkm">>)
    ELSE IF smp.sample_type = "clipseq"
         THEN StageResultOf(smp, fs \cup {RpkmFile(smp.label)}, "AttributeError",
                            <<"output_rpkm", "output_events_mapping">>)
         ELSE StageResultOf(smp, fs \cup {RpkmFile(smp.label)}, "none",
                            <<"output_rpkm">>)

SampleIdle ==
    /\ cfg = [mapper |-> "tophat", data_type |-> "rnaseq", paired |-> FALSE,
              cutadapt |-> TRUE, qc_loaded |-> FALSE]
    /\ label = ""
    /\ spc = "idle"
    /\ sample = NoSample
    /\ mstep = 0
    /\ trace = <<>>
    /\ exc = "none"
    /\ logged = <<>>
    /\ propagated = "none"
    /\ launchCall = NoLaunch
    /\ bamExisted = "-"
    /\ opLog = <<>>

\* ------------------------------------------------- SpecWait: one wait call
SleepArgs == {SleepInterval, SleepInterval + 1}

TestJob(st) == [cmd |-> [kind |-> "test"], state |-> st, exit |-> "-"]

RunIdle ==
    /\ stageUnderTest = "none"
    /\ callLog = <<>>
    /\ fnArg = <<>>
    /\ fnRes = <<>>
    /\ rpc = "idle"
    /\ job_ids = <<>>
    /\ waited = <<>>
    /\ waitIdx = 0
    /\ ctlLog = <<>>

InitWait ==
    /\ RunIdle
    /\ SampleIdle
    /\ samples = <<>>
    /\ files = {}
    /\ sched \in {<<TestJob(a), TestJob(b)>> : a \in JobStates, b \in JobStates}
    /\ wpc = "polling"
    /\ waitJob \in 1..2
    /\ waitSleep \in SleepArgs
    /\ pollLog = <<>>
    /\ sleepLog = <<>>

TestJobProgress ==
    \E j \in 1..Len(sched) :
        /\ sched[j].state # "gone"
        /\ sched[j].cmd.kind = "test"
        /\ sched' = [sched EXCEPT ![j].state = JobProgress(j)]
        /\ UNCHANGED <<samples, files, waitVars, runVars, cacheVars, sampleVars>>

NextWait ==
    \/ WaitPollPresent
    \/ WaitPollError
    \/ WaitPollAbsent
    \/ TestJobProgress

SpecWait == InitWait /\ [][NextWait]_vars

\* Fair polling: a poll that the scheduler answers truthfully is not
\* postponed forever once the job is gone.
SpecWaitFair == SpecWait /\ WF_vars(WaitPollAbsent)

\* ---------------------------------------------- SpecRun: the whole-run loop
\* Bounds of the runs explored: labels of the manifest and its length.
Labels == {"a", "b"}
MaxSamples == 2

RECURSIVE SeqsUpTo(_, _)
SeqsUpTo(S, n) ==
    IF n = 0 THEN {<<>>}
    ELSE LET shorter == SeqsUpTo(S, n - 1) IN
         shorter \cup {Append(q, x) : q \in {r \in shorter : Len(r) = n - 1}, x \in S}

\* Pipeline.py:535-540: the command of one sample's job.
SampleCmd(lbl) ==
    [kind |-> "sample", label |-> lbl,
     settings |-> SettingsFilename, outdir |-> OutputDir]

\* Mysge.py:94-102.  The acknowledgment of qsub (output[0]) is modelled by the
\* words of output[0].split(" "), a word by its characters (a word without
\* digits or signs is one piece: <<"Your">>).
Digits == <<"0", "1", "2", "3", "4", "5", "6", "7", "8", "9">>
IsDigit(c) == \E i \in 1..Len(Digits) : Digits[i] = c
DigitValue(c) == (CHOOSE i \in 1..Len(Digits) : Digits[i] = c) - 1

\* str(n) of a natural number
RECURSIVE Decimal(_)
Decimal(n) ==
    IF n < 10 THEN <<Digits[n + 1]>>
    ELSE Decimal(n \div 10) \o <<Digits[(n % 10) + 1]>>

\* str.strip() of the whitespace a word of the acknowledgment can hold
RECURSIVE Strip(_)
Strip(w) ==
    IF w = <<>> THEN w
    ELSE IF Head(w) = "\n" THEN Strip(Tail(w))
    ELSE IF w[Len(w)] = "\n" THEN Strip(SubSeq(w, 1, Len(w) - 1))
    ELSE w

RECURSIVE DigitsValue(_)
DigitsValue(w) ==
    IF Len(w) = 1 THEN DigitValue(w[1])
    ELSE DigitsValue(SubSeq(w, 1, Len(w) - 1)) * 10 + DigitValue(w[Len(w)])

\* int(word): surrounding whitespace and one sign are accepted; anything else
\* than decimal digits raises ValueError.
int(word) ==
    LET w    == Strip(word)
        sign == w # <<>> /\ w[1] \in {"+", "-"}
        body == IF sign THEN Tail(w) ELSE w
    IN  IF body = <<>> \/ \E i \in 1..Len(body) : ~IsDigit(body[i])
        THEN [raised |-> TRUE, value |-> 0]
        ELSE [raised |-> FALSE,
              value |-> IF sign /\ w[1] = "-" THEN 0 - DigitsValue(body)
                        ELSE DigitsValue(body)]

GoodAck(id) ==
    <<<<"Your">>, <<"job">>, Decimal(id), <<"has">>, <<"been">>, <<"submitted">>>>
BadAck == <<<<"Unable">>, <<"to">>, <<"run">>, <<"job">>>>

\* output[0].startswith("Your job ")
StartsWithYourJob(ack) ==
    Len(ack) >= 3 /\ ack[1] = <<"Your">> /\ ack[2] = <<"job">>

launchJob_NoneOnOtherAck(ack) ==
    IF StartsWithYourJob(ack) /\ ~int(ack[3]).raised
    THEN [raised |-> FALSE, returned |-> <<int(ack[3]).value>>]
    ELSE [raised |-> FALSE, returned |-> <<>>]

launchJob(ack) ==
    IF StartsWithYourJob(ack) /\ ~int(ack[3]).raised
    THEN [raised |-> FALSE, returned |-> <<int(ack[3]).value>>]
    ELSE [raised |-> TRUE, returned |-> <<>>]

\* Pipeline.py:561-569: the order of the calls of Pipeline.run.
RunSequenceCompileSwapped ==
    <<"run_on_samples", "wait_on_jobs", "compile_analysis_output",
      "compile_qc_output", "done">>

RunSequence ==
    <<"run_on_samples", "wait_on_jobs", "compile_qc_output",
      "compile_analysis_output", "done">>

RunAfter(step) ==
    LET i == CHOOSE k \in 1..Len(RunSequence) : RunSequence[k] = step
    IN  RunSequence[i + 1]

InitRun ==
    /\ stageUnderTest = "none"
    /\ callLog = <<>>
    /\ fnArg = <<>>
    /\ fnRes = <<>>
    /\ samples \in SeqsUpTo(Labels, MaxSamples)
    /\ rpc = "start"
    /\ job_ids = <<>>
    /\ waited = <<>>
    /\ waitIdx = 0
    /\ ctlLog = <<>>
    /\ SampleIdle
    /\ files = {}
    /\ sched \in {<<>>, <<TestJob("r")>>}
    /\ wpc = "idle"
    /\ waitJob = 0
    /\ waitSleep = SleepInterval
    /\ pollLog = <<>>
    /\ sleepLog = <<>>

\* Pipeline.py:552-559: no samples is fatal.
RunStart ==
    /\ rpc = "start"
    /\ rpc' = IF Len(samples) = 0 THEN "exit" ELSE RunSequence[1]
    /\ UNCHANGED <<sched, samples, files, waitVars, sampleVars, cacheVars,
                   job_ids, waited, waitIdx, ctlLog>>

\* Pipeline.py:532-544: one iteration of the loop of run_on_samples. The
\* scheduler either accepts the job and acknowledges it, or answers something
\* else, on which launchJob raises and the run ends.
RunOnSamplesLaunch ==
    /\ rpc = "run_on_samples"
    /\ Len(job_ids) < Len(samples)
    /\ \E accepted \in BOOLEAN :
         LET lbl   == samples[Len(job_ids) + 1]
             id    == Len(sched) + 1
             got   == launchJob(IF accepted THEN GoodAck(id) ELSE BadAck)
         IN  /\ ctlLog' = Append(ctlLog, "launch_job")
             /\ IF got.raised
                THEN /\ rpc' = "raised"
                     /\ UNCHANGED <<sched, job_ids>>
                ELSE /\ sched' = Append(sched, [cmd |-> SampleCmd(lbl),
                                                 state |-> "qw", exit |-> "-"])
                     /\ job_ids' = Append(job_ids, got.returned[1])
                     /\ UNCHANGED rpc
    /\ UNCHANGED <<samples, files, waitVars, sampleVars, cacheVars, waited, waitIdx>>

\* Pipeline.py:545, 561: run_on_samples returns the handles.
RunOnSamplesReturn ==
    /\ rpc = "run_on_samples"
    /\ Len(job_ids) = Len(samples)
    /\ rpc' = RunAfter("run_on_samples")
    /\ UNCHANGED <<sched, samples, files, waitVars, sampleVars, cacheVars,
                   job_ids, waited, waitIdx, ctlLog>>

\* wait_on_jobs(job_ids): waitUntilDone on each handle in turn.
WaitOnJobsCall ==
    /\ rpc = "wait_on_jobs"
    /\ waitIdx = 0
    /\ waited' = job_ids
    /\ waitIdx' = 1
    /\ ctlLog' = Append(ctlLog, "wait_on_jobs")
    /\ WaitCall(job_ids[1], SleepInterval)
    /\ UNCHANGED <<sched, samples, files, sampleVars, cacheVars, rpc, job_ids>>

WaitOnJobsNext ==
    /\ rpc = "wait_on_jobs"
    /\ waitIdx >= 1
    /\ wpc = "returned"
    /\ waitIdx < Len(waited)
    /\ waitIdx' = waitIdx + 1
    /\ WaitCall(waited[waitIdx + 1], SleepInterval)
    /\ UNCHANGED <<sched, samples, files, sampleVars, cacheVars, rpc, job_ids, waited, ctlLog>>

WaitOnJobsReturn ==
    /\ rpc = "wait_on_jobs"
    /\ waitIdx >= 1
    /\ wpc = "returned"
    /\ waitIdx = Len(waited)
    /\ wpc' = "idle"
    /\ ctlLog' = Append(ctlLog, "wait_returned")
    /\ rpc' = RunAfter("wait_on_jobs")
    /\ UNCHANGED <<sched, waitJob, waitSleep, pollLog, sleepLog,
                   samples, files, sampleVars, cacheVars, job_ids, waited, waitIdx>>

\* Pipeline.py:565, 567: the Aggregator reads every sample's outputs.
Aggregating == rpc \in {"compile_qc_output", "compile_analysis_output"}

CompileQcOutput ==
    /\ rpc = "compile_qc_output"
    /\ ctlLog' = Append(ctlLog, "compile_qc_output")
    /\ rpc' = RunAfter("compile_qc_output")
    /\ UNCHANGED <<sched, samples, files, waitVars, sampleVars, cacheVars,
                   job_ids, waited, waitIdx>>

CompileAnalysisOutput ==
    /\ rpc = "compile_analysis_output"
    /\ ctlLog' = Append(ctlLog, "compile_analysis_output")
    /\ rpc' = RunAfter("compile_analysis_output")
    /\ UNCHANGED <<sched, samples, files, waitVars, sampleVars, cacheVars,
                   job_ids, waited, waitIdx>>

SampleJobProgress_FailureCancelsSiblings ==
    \E j \in 1..Len(sched) :
        /\ sched[j].state # "gone"
        /\ sched[j].cmd.kind = "sample"
        /\ \E how \in {"ok", "failed"} :
             sched' = [k \in 1..Len(sched) |->
                         IF k = j
                         THEN [sched[k] EXCEPT
                                 !.state = JobProgress(j),
                                 !.exit = IF JobProgress(j) = "gone"
                                          THEN how ELSE "-"]
                         ELSE IF JobProgress(j) = "gone" /\ how = "failed"
                                 /\ sched[k].cmd.kind = "sample"
                                 /\ sched[k].state # "gone"
                         THEN [sched[k] EXCEPT !.state = "gone",
                                               !.exit = "failed"]
                         ELSE sched[k]]
        /\ UNCHANGED <<samples, files, waitVars, runVars, cacheVars, sampleVars>>

\* A sample's job: scheduled, then running run_on_sample(label) and writing
\* its outputs, then gone, whether run_on_sample returned or raised.
SampleJobProgress ==
    \E j \in 1..Len(sched) :
        /\ sched[j].state # "gone"
        /\ sched[j].cmd.kind = "sample"
        /\ \E how \in {"ok", "failed"} :
             sched' = [sched EXCEPT
                         ![j].state = JobProgress(j),
                         ![j].exit = IF JobProgress(j) = "gone" THEN how ELSE "-"]
        /\ UNCHANGED <<samples, files, waitVars, runVars, cacheVars, sampleVars>>

NextRun ==
    \/ RunStart
    \/ RunOnSamplesLaunch
    \/ RunOnSamplesReturn
    \/ WaitOnJobsCall
    \/ WaitOnJobsNext
    \/ WaitOnJobsReturn
    \/ CompileQcOutput
    \/ CompileAnalysisOutput
    \/ SampleJobProgress
    \/ TestJobProgress
    \/ WaitPollPresent
    \/ WaitPollError
    \/ WaitPollAbsent

SpecRun == InitRun /\ [][NextRun]_vars

\* ------------------------------- Spec: one job running run_on_sample(label)
InitSample ==
    /\ RunIdle
    /\ cfg \in [mapper : Mappers, data_type : DataTypes, paired : BOOLEAN,
                cutadapt : BOOLEAN, qc_loaded : BOOLEAN]
    /\ samples = <<"a", "b">>
    /\ label \in {"a", "b", "c"}
    /\ files \in {{SeqFile(label, "1"), SeqFile(label, "2")} \cup given :
                    given \in SUBSET {AdaptorsFilename, TophatOut(label)}}
    /\ spc = "start"
    /\ sample = NoSample
    /\ mstep = 0
    /\ trace = <<>>
    /\ exc = "none"
    /\ logged = <<>>
    /\ propagated = "none"
    /\ launchCall = NoLaunch
    /\ bamExisted = "-"
    /\ opLog = <<>>
    /\ sched = <<>>
    /\ wpc = "idle"
    /\ waitJob = 0
    /\ waitSleep = SleepInterval
    /\ pollLog = <<>>
    /\ sleepLog = <<>>

\* Pipeline.py:574-581: no Sample with that label ends the run (sys.exit(1)
\* inside the try block).
RunOnSampleFetch ==
    /\ spc = "start"
    /\ IF get_sample_by_label(label) = 0
       THEN /\ exc' = "SystemExit"
            /\ spc' = "except"
            /\ UNCHANGED sample
       ELSE /\ sample' = BuildSample(samples[get_sample_by_label(label)],
                                     cfg.data_type, cfg.paired)
            /\ spc' = RunOnSampleStages[1]
            /\ UNCHANGED exc
    /\ UNCHANGED <<sched, samples, files, waitVars, runVars, cacheVars, cfg, label, mstep,
                   trace, logged, propagated, launchCall, bamExisted, opLog>>

\* A stage that runs to its end in one step: it returns or raises.
StageStep(stage, r) ==
    /\ sample' = r.sample
    /\ files' = r.files
    /\ IF r.exc = "none"
       THEN /\ trace' = trace \o <<Call(stage), Return(stage)>>
            /\ spc' = StageAfter(stage)
            /\ UNCHANGED exc
       ELSE /\ trace' = trace \o <<Call(stage), Raise(stage)>>
            /\ spc' = "except"
            /\ exc' = r.exc
    /\ opLog' = opLog \o r.calls
    /\ UNCHANGED <<sched, samples, waitVars, runVars, cacheVars, cfg, label, mstep,
                   logged, propagated, launchCall, bamExisted>>

PreprocessReads ==
    /\ spc = "preprocess_reads"
    /\ \E ok \in BOOLEAN :
         StageStep("preprocess_reads",
                   preprocess_reads(sample, files, cfg.cutadapt, ok))

RunQc ==
    /\ spc = "run_qc"
    /\ \E ok \in BOOLEAN :
         StageStep("run_qc", run_qc(sample, files, cfg.qc_loaded, ok))

RunAnalysis ==
    /\ spc = "run_analysis"
    /\ \E ok \in BOOLEAN :
         StageStep("run_analysis", run_analysis(sample, files, ok))

\* Pipeline.py:600-652: map_reads up to its launch_and_wait call, which either
\* is skipped or submits the command (Mysge.launchJob) and waits for the job
\* (Mysge.waitUntilDone).
MapReadsAlign ==
    /\ spc = "map_reads"
    /\ bamExisted' =
          IF IsFile(files, TargetAlignmentFile(sample, cfg.mapper))
          THEN "yes" ELSE "no"
    /\ LET m == map_reads_launch(sample, cfg.mapper) IN
         IF m.exc # "none"
         THEN /\ trace' = trace \o <<Call("map_reads"), Raise("map_reads")>>
              /\ exc' = m.exc
              /\ spc' = "except"
              /\ UNCHANGED <<sched, waitVars, sample, mstep, launchCall>>
         ELSE IF LaunchSkipped(files, m.unless_exists)
         THEN /\ trace' = Append(trace, Call("map_reads"))
              /\ launchCall' = [called |-> TRUE, reads |-> m.reads,
                                unless_exists |-> m.unless_exists,
                                submit |-> "skipped"]
              /\ sample' = [m.sample EXCEPT !.bam_filename = m.bam]
              /\ spc' = "map_post"
              /\ mstep' = 1
              /\ UNCHANGED <<sched, waitVars, exc>>
         ELSE \E accepted \in BOOLEAN :
                LET id  == Len(sched) + 1
                    got == launchJob(IF accepted THEN GoodAck(id) ELSE BadAck)
                IN  /\ sample' = m.sample
                    /\ launchCall' =
                          [called |-> TRUE, reads |-> m.reads,
                           unless_exists |-> m.unless_exists,
                           submit |-> IF got.raised THEN "failed" ELSE "submitted"]
                    /\ IF got.raised
                       THEN /\ trace' = trace \o <<Call("map_reads"),
                                                   Raise("map_reads")>>
                            /\ exc' = "Exception"
                            /\ spc' = "except"
                            /\ UNCHANGED <<sched, waitVars, mstep>>
                       ELSE /\ trace' = Append(trace, Call("map_reads"))
                            /\ sched' = Append(sched,
                                   [cmd |-> [kind |-> "align",
                                             mapper |-> cfg.mapper,
                                             reads |-> m.reads,
                                             out |-> m.bam],
                                    state |-> "qw", exit |-> "-"])
                            /\ WaitCall(got.returned[1], SleepInterval)
                            /\ spc' = "map_wait"
                            /\ UNCHANGED <<exc, mstep>>
    /\ UNCHANGED <<samples, files, runVars, cacheVars, cfg, label, logged, propagated,
                   opLog>>

\* launch_and_wait returns; Pipeline.py:649 (tophat) records the alignment file.
MapReadsAligned ==
    /\ spc = "map_wait"
    /\ wpc = "returned"
    /\ wpc' = "idle"
    /\ sample' = [sample EXCEPT !.bam_filename =
                      map_reads_launch(sample, cfg.mapper).bam]
    /\ spc' = "map_post"
    /\ mstep' = 1
    /\ UNCHANGED <<sched, samples, files, waitJob, waitSleep, pollLog, sleepLog,
                   runVars, cacheVars, cfg, label, trace, exc, logged, propagated,
                   launchCall, bamExisted, opLog>>

\* Pipeline.py:653-681: one post-processing call of map_reads; after the last
\* one map_reads returns the Sample.
MapReadsPost ==
    /\ spc = "map_post"
    /\ LET steps == MapPostSteps(sample.sample_type)
           r == MapPostStep(steps[mstep], sample, files, TRUE)
       IN  /\ sample' = r.sample
           /\ files' = r.files
           /\ IF r.exc # "none"
              THEN /\ trace' = Append(trace, Raise("map_reads"))
                   /\ exc' = r.exc
                   /\ spc' = "except"
                   /\ UNCHANGED mstep
              ELSE IF mstep = Len(steps)
              THEN /\ trace' = Append(trace, Return("map_reads"))
                   /\ spc' = StageAfter("map_reads")
                   /\ UNCHANGED <<exc, mstep>>
              ELSE /\ mstep' = mstep + 1
                   /\ UNCHANGED <<trace, exc, spc>>
           /\ opLog' = Append(opLog, steps[mstep])
    /\ UNCHANGED <<sched, samples, waitVars, runVars, cacheVars, cfg, label, logged,
                   propagated, launchCall, bamExisted>>

\* Pipeline.py:594-597
RunOnSampleExcept ==
    /\ spc = "except"
    /\ logged' = logged \o ExceptHandler(exc).logged
    /\ propagated' = ExceptHandler(exc).raised
    /\ spc' = IF ExceptHandler(exc).raised = "none" THEN "returned" ELSE "raised"
    /\ UNCHANGED <<sched, samples, files, waitVars, runVars, cacheVars, cfg, label, sample,
                   mstep, trace, exc, launchCall, bamExisted, opLog>>

\* The alignment job: the aligner writes its output file unless it fails.
AlignJobProgress ==
    \E j \in 1..Len(sched) :
        /\ sched[j].state # "gone"
        /\ sched[j].cmd.kind = "align"
        /\ sched' = [sched EXCEPT ![j].state = JobProgress(j)]
        /\ \E ok \in BOOLEAN :
             files' = IF JobProgress(j) = "gone" /\ ok
                      THEN files \cup {sched[j].cmd.out} ELSE files
        /\ UNCHANGED <<samples, waitVars, runVars, cacheVars, sampleVars>>

Next ==
    \/ RunOnSampleFetch
    \/ PreprocessReads
    \/ MapReadsAlign
    \/ MapReadsAligned
    \/ MapReadsPost
    \/ RunQc
    \/ RunAnalysis
    \/ RunOnSampleExcept
    \/ AlignJobProgress
    \/ WaitPollPresent
    \/ WaitPollError
    \/ WaitPollAbsent

Spec == InitSample /\ [][Next]_vars

\* ------------- SpecPost: run_on_sample from the point where map_reads' call
\* of launch_and_wait has returned, for a tophat pipeline of any data type.
\* The alignment file is there or not; launch_and_wait was skipped only if it
\* was there.
IndexOf(bam) == Path(bam.dir, bam.name \o <<".", "bai">>)

InitPost ==
    /\ RunIdle
    /\ cfg \in [mapper : {"tophat"}, data_type : DataTypes, paired : BOOLEAN,
                cutadapt : {TRUE}, qc_loaded : BOOLEAN]
    /\ samples = <<"a", "b">>
    /\ label \in Labels
    /\ sample = [BuildSample(label, cfg.data_type, cfg.paired) EXCEPT
                    !.bam_filename = TophatOut(label)]
    /\ files \in {{SeqFile(label, "1"), SeqFile(label, "2")} \cup given :
                    given \in SUBSET {TophatOut(label), IndexOf(TophatOut(label))}}
    /\ bamExisted \in {"yes", "no"}
    /\ bamExisted = "yes" => IsFile(files, TophatOut(label))
    /\ launchCall = [called |-> TRUE, reads |-> ReadsOf(sample),
                     unless_exists |-> TophatOut(label),
                     submit |-> IF bamExisted = "yes" THEN "skipped"
                                ELSE "submitted"]
    /\ spc = "map_post"
    /\ mstep = 1
    /\ trace = <<Call("map_reads")>>
    /\ exc = "none"
    /\ logged = <<>>
    /\ propagated = "none"
    /\ opLog = <<>>
    /\ sched = <<>>
    /\ wpc = "idle"
    /\ waitJob = 0
    /\ waitSleep = SleepInterval
    /\ pollLog = <<>>
    /\ sleepLog = <<>>

NextPost ==
    \/ MapReadsPost
    \/ RunQc
    \/ RunAnalysis
    \/ RunOnSampleExcept

SpecPost == InitPost /\ [][NextPost]_vars

\* -------------------- SpecCache: a file-producing stage invoked repeatedly
Stages ==
    {"index_bam", "sort_and_index_bam", "rmdups_bam", "get_unique_reads",
     "get_ribosub_bam_reads", "trim_clip_adaptors"}

\* The inputs the stage under test is invoked with, the same every time.
CacheBam == TophatOut("a")
CacheSortedBam == Path(CacheBam.dir, <<"accepted_hits", ".", "sorted", ".", "bam">>)
CacheDir == MappingDir \o <<"a", "processed_bams">>
CacheSample ==
    [BuildSample("a", "rnaseq", FALSE) EXCEPT
        !.bam_filename = CacheBam, !.processed_bam_dir = CacheDir]
CacheInputs == {CacheBam, CacheSortedBam, SeqFile("a", "1"), AdaptorsFilename}

StageCall(stage, fs, cutadapt, ok) ==
    CASE stage = "index_bam" -> index_bam(fs, CacheBam, ok)
      [] stage = "sort_and_index_bam" -> sort_and_index_bam(fs, CacheBam, ok)
      [] stage = "rmdups_bam" -> rmdups_bam(fs, CacheSortedBam, CacheDir, ok)
      [] stage = "get_unique_reads" -> get_unique_reads(fs, CacheSample)
      [] stage = "get_ribosub_bam_reads" -> get_ribosub_bam_reads(fs, CacheSample)
      [] OTHER -> trim_clip_adaptors(fs, SeqFile("a", "1"), AdaptorsFilename,
                                     RawdataDir, cutadapt, ok)

\* The output path of the stage: what it returns when nothing is missing.
StageTarget(stage) == StageCall(stage, CacheInputs, TRUE, TRUE).path

InitCache ==
    /\ stageUnderTest \in Stages
    /\ callLog = <<>>
    /\ fnArg = <<>>
    /\ fnRes = <<>>
    /\ opLog = <<>>
    /\ files \in {given \cup old :
                    given \in SUBSET CacheInputs,
                    old \in {{}, {StageTarget(stageUnderTest)}}}
    /\ cfg \in [mapper : {"tophat"}, data_type : {"rnaseq"}, paired : {FALSE},
                cutadapt : BOOLEAN, qc_loaded : {FALSE}]
    /\ sample = CacheSample
    /\ samples = <<"a">>
    /\ label = "a"
    /\ spc = "idle"
    /\ mstep = 0
    /\ trace = <<>>
    /\ exc = "none"
    /\ logged = <<>>
    /\ propagated = "none"
    /\ launchCall = NoLaunch
    /\ bamExisted = "-"
    /\ rpc = "idle"
    /\ job_ids = <<>>
    /\ waited = <<>>
    /\ waitIdx = 0
    /\ ctlLog = <<>>
    /\ sched = <<>>
    /\ wpc = "idle"
    /\ waitJob = 0
    /\ waitSleep = SleepInterval
    /\ pollLog = <<>>
    /\ sleepLog = <<>>

\* One invocation of the stage; ok: the external command, if run, succeeds.
InvokeStage ==
    /\ Len(callLog) < MaxCalls
    /\ \E ok \in BOOLEAN :
         LET r == StageCall(stageUnderTest, files, cfg.cutadapt, ok)
             target == StageTarget(stageUnderTest)
         IN  /\ files' = r.files
             /\ callLog' = Append(callLog,
                    [pre |-> IsFile(files, target), ran |-> r.ran,
                     left |-> IsFile(r.files, target), exc |-> r.exc])
    /\ UNCHANGED <<sched, samples, waitVars, runVars, sampleVars, stageUnderTest,
                   fnArg, fnRes>>

NextCache == InvokeStage

SpecCache == InitCache /\ [][NextCache]_vars

\* ------------------------------------- SpecSubmit: one launchJob(test=False)
\* Words per acknowledgment explored.
MaxWords == 3

AckWords ==
    {<<"Your">>, <<"job">>, <<"job-array">>, <<"abc">>, <<>>, <<"7">>,
     <<"1", "2">>, <<"0", "7">>, <<"7", "\n">>, <<"-", "3">>, <<"7", "x">>}

RECURSIVE WordSeqs(_)
WordSeqs(n) ==
    IF n = 0 THEN {<<>>}
    ELSE LET shorter == WordSeqs(n - 1) IN
         shorter \cup {Append(q, w) : q \in {r \in shorter : Len(r) = n - 1},
                                      w \in AckWords}

\* Every variable that the functions under test neither read nor write.
FnIdle ==
    /\ stageUnderTest = "none"
    /\ callLog = <<>>
    /\ rpc = "idle"
    /\ job_ids = <<>>
    /\ waited = <<>>
    /\ waitIdx = 0
    /\ ctlLog = <<>>
    /\ SampleIdle
    /\ samples = <<>>
    /\ sched = <<>>
    /\ wpc = "idle"
    /\ waitJob = 0
    /\ waitSleep = SleepInterval
    /\ pollLog = <<>>
    /\ sleepLog = <<>>

fnFrame ==
    <<sched, samples, files, waitVars, runVars, sampleVars, stageUnderTest,
      callLog, fnArg>>

InitSubmit ==
    /\ FnIdle
    /\ files = {}
    /\ fnArg \in WordSeqs(MaxWords) \ {<<>>}
    /\ fnRes = <<>>

\* Mysge.py:83-106: qsub answered fnArg.
LaunchJobCall ==
    /\ fnRes = <<>>
    /\ fnRes' = <<launchJob(fnArg)>>
    /\ UNCHANGED fnFrame

NextSubmit == LaunchJobCall

SpecSubmit == InitSubmit /\ [][NextSubmit]_vars

\* ------------------------- SpecFilter: the record-writing passes of the
\* filters get_unique_reads and get_ribosub_bam_reads, on a BAM file given by
\* its records in file order.  A record: the query name, the reference it is
\* aligned to, and the value of its NH tag (0: no NH tag).
MaxReads == 3

ChrRibo == "chrRibo"

Reads == [qname : {"Q1", "Q2"}, ref : {ChrRibo, "chr1"}, NH : 0..2]

\* The five records of multiplicities 1, 1, 2, 3, 1.
ExampleReads ==
    <<[qname |-> "Q1", ref |-> "chr1", NH |-> 1],
      [qname |-> "Q2", ref |-> "chr1", NH |-> 1],
      [qname |-> "Q3", ref |-> "chr1", NH |-> 2],
      [qname |-> "Q4", ref |-> "chr1", NH |-> 3],
      [qname |-> "Q5", ref |-> "chr1", NH |-> 1]>>

RECURSIVE ReadSeqs(_)
ReadSeqs(n) ==
    IF n = 0 THEN {<<>>}
    ELSE LET shorter == ReadSeqs(n - 1) IN
         shorter \cup {Append(q, r) : q \in {x \in shorter : Len(x) = n - 1},
                                      r \in Reads}

\* A coordinate-sorted file: the records of one reference are contiguous.
SortedByRef(reads) ==
    \A i, j, k \in 1..Len(reads) :
        (i < j /\ j < k /\ reads[i].ref = reads[k].ref) =>
            reads[j].ref = reads[i].ref

\* Pipeline.py:863  if ("NH", 1) in read.tags
IsUnique_AnyNH(read) == read.NH >= 1

IsUnique(read) == read.NH = 1

\* Pipeline.py:861-865: the positions of the records that the loop over
\* mapped_reads writes, from position i on.
RECURSIVE unique_reads_from(_, _)
unique_reads_from(reads, i) ==
    IF i > Len(reads) THEN <<>>
    ELSE (IF IsUnique(reads[i]) THEN <<i>> ELSE <<>>)
         \o unique_reads_from(reads, i + 1)

\* Pipeline.py:796-801: the query names of mapped_reads.fetch(reference=chr_ribo).
ribo_read_ids(reads, chr_ribo) ==
    {reads[i].qname : i \in {k \in 1..Len(reads) : reads[k].ref = chr_ribo}}

\* Pipeline.py:815-820: the loop `for read in mapped_reads` that follows the
\* fetch on the same Samfile, from position i on.
RECURSIVE ribosub_reads_from(_, _, _)
ribosub_reads_from(reads, ids, i) ==
    IF i > Len(reads) THEN <<>>
    ELSE (IF reads[i].qname \in ids THEN <<>> ELSE <<i>>)
         \o ribosub_reads_from(reads, ids, i + 1)

\* Where `for read in mapped_reads` starts after mapped_reads.fetch(...) has
\* been consumed.  pysam decides: a fetch that iterates on a handle of its own
\* leaves the Samfile at its first record; a fetch that shares the handle of
\* the Samfile leaves it after the last record of the reference it read.
LastOnRef(reads, chr_ribo) ==
    LET on == {k \in 1..Len(reads) : reads[k].ref = chr_ribo}
    IN  IF on = {} THEN 0 ELSE CHOOSE k \in on : \A m \in on : m <= k

SecondPassStarts(reads, chr_ribo) == {1, LastOnRef(reads, chr_ribo) + 1}

\* The reference sequences the header of the BAM file can declare: those of
\* the index the aligner mapped against, which hold the reference of every
\* record.
Headers == {{"chr1"}, {"chr1", ChrRibo}}

\* Pipeline.py:797-799: Samfile.fetch(reference=chr_ribo) raises ValueError
\* for a reference that the header does not declare.
FetchRaises(references, chr_ribo) == chr_ribo \notin references

FilterResult(written, warned, raised) ==
    [written |-> written, warned |-> warned, raised |-> raised]

InitFilter ==
    /\ FnIdle
    /\ files = {}
    /\ fnArg \in [filter : {"unique", "ribosub"},
                  reads : {r \in ReadSeqs(MaxReads) : SortedByRef(r)}
                             \cup {ExampleReads},
                  references : Headers]
    /\ \A i \in 1..Len(fnArg.reads) : fnArg.reads[i].ref \in fnArg.references
    /\ fnRes = <<>>

\* Pipeline.py:854-869: the output file does not exist yet.
GetUniqueReadsPass ==
    /\ fnRes = <<>>
    /\ fnArg.filter = "unique"
    /\ LET written == unique_reads_from(fnArg.reads, 1) IN
         fnRes' = <<FilterResult(written, Len(written) = 0, FALSE)>>
    /\ UNCHANGED fnFrame

\* Pipeline.py:794-821: the output file does not exist yet.
GetRibosubReadsPass ==
    /\ fnRes = <<>>
    /\ fnArg.filter = "ribosub"
    /\ IF FetchRaises(fnArg.references, ChrRibo)
       THEN fnRes' = <<FilterResult(<<>>, FALSE, TRUE)>>
       ELSE \E start \in SecondPassStarts(fnArg.reads, ChrRibo) :
              LET ids == ribo_read_ids(fnArg.reads, ChrRibo) IN
              fnRes' = <<FilterResult(
                           ribosub_reads_from(fnArg.reads, ids, start),
                           Cardinality(ids) = 0, FALSE)>>
    /\ UNCHANGED fnFrame

NextFilter ==
    \/ GetUniqueReadsPass
    \/ GetRibosubReadsPass

SpecFilter == InitFilter /\ [][NextFilter]_vars

\* ------------------------------------------ SpecMerge: Pipeline.load_rpkms
\* Samples per run explored by SpecMerge.
MaxTables == 3

\* rna_base.rpkm_table_names, in order.
TableNames == <<"ensGene", "refGene">>
Genes == {"G1", "G2"}

\* A table is a set of rows; a row has its key (gene_id, exons, gene_symbol,
\* gene_desc stand together as `key`) and the samples whose quantity columns
\* it carries, in column order.  NoTable: None.
NoTable == [present |-> FALSE, rows |-> {}]
Table(rows) == [present |-> TRUE, rows |-> rows]

\* rpkm_utils.load_sample_rpkms for sample i: a table per table name, or None.
SampleTablesOf(i) ==
    {NoTable} \cup {Table({[key |-> g, cols |-> <<i>>] : g \in gs}) :
                      gs \in SUBSET Genes}

\* Pipeline.py:259-264  pandas.merge(a, b, on=[the key columns]), how="inner"
merge_Outer(a, b) ==
    {[key |-> r.key, cols |-> r.cols] : r \in a \cup b}

merge(a, b) ==
    {[key |-> ra.key, cols |-> ra.cols \o rb.cols] :
        <<ra, rb>> \in {x \in a \X b : x[1].key = x[2].key}}

\* Pipeline.py:254-264: the table of the first sample merged with the table of
\* each next sample in turn, from sample i on.
RECURSIVE combined_rpkm_table(_, _, _, _)
combined_rpkm_table(acc, sample_tables, table_name, i) ==
    IF i > Len(sample_tables) THEN acc
    ELSE combined_rpkm_table(merge(acc, sample_tables[i][table_name].rows),
                             sample_tables, table_name, i + 1)

\* pandas.merge raises when given None for a table.
MergeRaises(sample_tables, table_name) ==
    /\ sample_tables[1][table_name].present
    /\ Len(sample_tables) > 1
    /\ \E i \in 2..Len(sample_tables) : ~sample_tables[i][table_name].present

\* Pipeline.py:240-266: the entry of self.rpkm_tables for one table name.
rpkm_table_FirstAvailable(sample_tables, table_name) ==
    LET have == {i \in 1..Len(sample_tables) :
                    sample_tables[i][table_name].present}
    IN  IF have = {} THEN NoTable
        ELSE sample_tables[CHOOSE i \in have : \A k \in have : i <= k][table_name]

rpkm_table(sample_tables, table_name) ==
    IF ~sample_tables[1][table_name].present THEN NoTable
    ELSE IF Len(sample_tables) = 1 THEN sample_tables[1][table_name]
    ELSE Table(combined_rpkm_table(sample_tables[1][table_name].rows,
                                   sample_tables, table_name, 2))

\* Pipeline.py:228-266: self.rpkm_tables when load_rpkms ends, and whether it
\* ended by raising; the names that follow one that raises are not reached.
load_rpkms(sample_tables) ==
    LET failing == {k \in 1..Len(TableNames) :
                       MergeRaises(sample_tables, TableNames[k])}
        reached(k) == \A f \in failing : k < f
    IN  [raised |-> failing # {},
         rpkm_tables |->
            [n \in {TableNames[k] : k \in 1..Len(TableNames)} |->
                LET k == CHOOSE j \in 1..Len(TableNames) : TableNames[j] = n
                IN  IF reached(k) THEN rpkm_table(sample_tables, n)
                    ELSE NoTable]]

RECURSIVE SampleTableSeqs(_)
SampleTableSeqs(n) ==
    IF n = 0 THEN {<<>>}
    ELSE {Append(q, t) :
             q \in SampleTableSeqs(n - 1),
             t \in [{TableNames[k] : k \in 1..Len(TableNames)}
                       -> SampleTablesOf(n)]}

InitMerge ==
    /\ FnIdle
    /\ files = {}
    /\ \E n \in 1..MaxTables : fnArg \in SampleTableSeqs(n)
    /\ fnRes = <<>>

LoadRpkms ==
    /\ fnRes = <<>>
    /\ fnRes' = <<load_rpkms(fnArg)>>
    /\ UNCHANGED fnFrame

NextMerge == LoadRpkms

SpecMerge == InitMerge /\ [][NextMerge]_vars

\* ------------------------- SpecStage: one call of a stage of run_on_sample
\* on a freshly built Sample.  fnArg: the stage, the pipeline's settings, and
\* whether the sample's quantification output of an earlier run is on disk.
StageFns == {"preprocess_reads", "run_qc", "run_analysis"}

stageFrame ==
    <<sched, samples, waitVars, runVars, sampleVars, stageUnderTest, callLog,
      fnArg>>

StageSample == BuildSample(fnArg.label, fnArg.data_type, fnArg.paired)

InitStage ==
    /\ FnIdle
    /\ fnArg \in [fn : StageFns, label : Labels, data_type : DataTypes,
                  paired : BOOLEAN, cutadapt : BOOLEAN, qc_loaded : BOOLEAN,
                  ok : BOOLEAN, rpkm_done : BOOLEAN]
    /\ files = {SeqFile(fnArg.label, "1"), SeqFile(fnArg.label, "2"),
                AdaptorsFilename}
                \cup (IF fnArg.rpkm_done THEN {RpkmFile(fnArg.label)} ELSE {})
    /\ fnRes = <<>>

\* Pipeline.py:478-516
PreprocessReadsCall ==
    /\ fnRes = <<>>
    /\ fnArg.fn = "preprocess_reads"
    /\ LET r == preprocess_reads(StageSample, files, fnArg.cutadapt, fnArg.ok) IN
       /\ fnRes' = <<r>>
       /\ files' = r.files
    /\ UNCHANGED stageFrame

\* Pipeline.py:877-893
RunQcCall ==
    /\ fnRes = <<>>
    /\ fnArg.fn = "run_qc"
    /\ LET r == run_qc(StageSample, files, fnArg.qc_loaded, fnArg.ok) IN
       /\ fnRes' = <<r>>
       /\ files' = r.files
    /\ UNCHANGED stageFrame

\* Pipeline.py:1089-1106
RunAnalysisCall ==
    /\ fnRes = <<>>
    /\ fnArg.fn = "run_analysis"
    /\ LET r == run_analysis(StageSample, files, fnArg.ok) IN
       /\ fnRes' = <<r>>
       /\ files' = r.files
    /\ UNCHANGED stageFrame

NextStage == PreprocessReadsCall \/ RunQcCall \/ RunAnalysisCall

SpecStage == InitStage /\ [][NextStage]_vars

\* ------------------------- SpecLoad: load_pipeline_samples on the settings'
\* sequence_files (the manifest: a file and a label per entry) and
\* sample_groups (a group and its member labels per entry).
MaxEntries == 2

RawLabels == {"s1", "s2"}
GroupLabels == {"G1", "G2"}

\* The file of the manifest's entry i.
EntryFile(i) == SeqFile("reads", Decimal(i)[1])

Manifests(n) ==
    UNION {[1..k -> RawLabels] : k \in 0..n}

MemberLists(n) == UNION {[1..k -> RawLabels] : k \in 1..n}

GroupDef(group, members) == [group |-> group, members |-> members]

SampleGroups(n) ==
    SeqsUpTo({GroupDef(g, m) : g \in GroupLabels, m \in MemberLists(n)},
             Cardinality(GroupLabels))

\* Pipeline.py:390-417 and 420-437: one SampleRawdata per manifest entry, in
\* manifest order; a sequence file that does not exist ends the process.
get_samples_rawdata(manifest, fs, data_type) ==
    IF \E i \in 1..Len(manifest) : ~IsFile(fs, EntryFile(i))
    THEN [raised |-> "SystemExit", rawdata |-> <<>>]
    ELSE [raised |-> "none",
          rawdata |-> [i \in 1..Len(manifest) |->
                          SampleRawdata(manifest[i], EntryFile(i), data_type)]]

\* Pipeline.py:449-450: dict() of (label, rawdata) pairs keeps, for a label,
\* the last of the pairs that carry it (0: no such key).
samples_rawdata_by_label(all_samples_rawdata, lbl) ==
    LET at == {i \in 1..Len(all_samples_rawdata) :
                  all_samples_rawdata[i].label = lbl}
    IN  IF at = {} THEN 0 ELSE CHOOSE i \in at : \A k \in at : k <= i

\* Pipeline.py:351-376: group_to_samples[group], the members of every entry
\* of that group, appended in the order of the group definitions.
RECURSIVE group_to_samples(_, _)
group_to_samples(sample_groups, group) ==
    IF sample_groups = <<>> THEN <<>>
    ELSE (IF Head(sample_groups).group = group
          THEN Head(sample_groups).members ELSE <<>>)
         \o group_to_samples(Tail(sample_groups), group)

GroupKeys(sample_groups) ==
    {sample_groups[i].group : i \in 1..Len(sample_groups)}

\* The orders in which a dict of these keys may be iterated.
KeyOrders(keys) ==
    {q \in [1..Cardinality(keys) -> keys] :
        \A i, j \in 1..Cardinality(keys) : i # j => q[i] # q[j]}

group_samples_ManifestOrder(all_samples_rawdata, samples_in_group) ==
    LET kept == {i \in 1..Len(all_samples_rawdata) :
                    \E k \in 1..Len(samples_in_group) :
                        samples_in_group[k] = all_samples_rawdata[i].label}
        nth(k) == CHOOSE i \in kept :
                      Cardinality({j \in kept : j < i}) = k - 1
    IN  [k \in 1..Cardinality(kept) |-> all_samples_rawdata[nth(k)]]

\* Pipeline.py:457-458: the rawdata of the members, in the order of
\* samples_in_group.
group_samples(all_samples_rawdata, samples_in_group) ==
    [k \in 1..Len(samples_in_group) |->
        all_samples_rawdata[samples_rawdata_by_label(all_samples_rawdata,
                                                     samples_in_group[k])]]

\* Pipeline.py:440-475.  key_order: the order in which iteritems() yields the
\* groups.  A member that labels no manifest entry is a KeyError; paired mode
\* without the sample_groups setting ends the process (357-361).
load_pipeline_samples(settings, fs, key_order) ==
    LET all == get_samples_rawdata(settings.sequence_files, fs,
                                   settings.data_type)
        raw == all.rawdata
    IN  IF all.raised # "none" THEN [raised |-> all.raised, samples |-> <<>>]
        ELSE IF ~settings.paired
        THEN [raised |-> "none",
              samples |-> [i \in 1..Len(raw) |->
                              Sample(raw[i].label, <<raw[i]>>, FALSE)]]
        ELSE IF ~settings.has_sample_groups
        THEN [raised |-> "SystemExit", samples |-> <<>>]
        ELSE IF \E i \in 1..Len(settings.sample_groups) :
                   \E k \in 1..Len(settings.sample_groups[i].members) :
                       samples_rawdata_by_label(
                           raw, settings.sample_groups[i].members[k]) = 0
        THEN [raised |-> "KeyError", samples |-> <<>>]
        ELSE [raised |-> "none",
              samples |-> [i \in 1..Len(key_order) |->
                  Sample(key_order[i],
                         group_samples(raw,
                             group_to_samples(settings.sample_groups,
                                              key_order[i])),
                         TRUE)]]

InitLoad ==
    /\ FnIdle
    /\ fnArg \in [sequence_files : Manifests(MaxEntries),
                  sample_groups : SampleGroups(MaxEntries),
                  has_sample_groups : BOOLEAN,
                  paired : BOOLEAN,
                  data_type : DataTypes]
    /\ ~fnArg.paired => fnArg.sample_groups = <<>> /\ ~fnArg.has_sample_groups
    /\ ~fnArg.has_sample_groups => fnArg.sample_groups = <<>>
    /\ \E missing \in 0..Len(fnArg.sequence_files) :
          files = {EntryFile(i) : i \in 1..Len(fnArg.sequence_files)}
                      \ {EntryFile(missing)}
    /\ fnRes = <<>>

\* Pipeline.py:440-475
LoadPipelineSamples ==
    /\ fnRes = <<>>
    /\ \E key_order \in KeyOrders(GroupKeys(fnArg.sample_groups)) :
          fnRes' = <<load_pipeline_samples(fnArg, files, key_order)>>
    /\ UNCHANGED fnFrame

NextLoad == LoadPipelineSamples

SpecLoad == InitLoad /\ [][NextLoad]_vars

\* ------------------------- SpecJobs: the jobs of two single-end Samples with
\* distinct labels, each at the preprocessing stage of run_on_sample, running
\* concurrently.  A job's stage looks at the files that exist when it starts
\* and its external tool writes its output some time later.
JobLabels == <<"a", "b">>

\* The sequence files the manifest may give a sample: input_dir joined with
\* the entry's file name, which may itself hold a directory.
JobSeqFiles ==
    {SeqFile("reads", "1"), SeqFile("reads", "2"),
     Path(<<"indir", "lane2">>, SeqFile("reads", "1").name)}

JobSample(i) ==
    Sample(JobLabels[i],
           <<SampleRawdata(JobLabels[i], fnArg.seq[i], fnArg.data_type)>>, FALSE)

JobIdle == [pc |-> "idle", writes |-> {}, exc |-> "none"]

InitJobs ==
    /\ FnIdle
    /\ fnArg \in [data_type : DataTypes, cutadapt : BOOLEAN,
                  seq : [1..Len(JobLabels) -> JobSeqFiles]]
    /\ files = {fnArg.seq[i] : i \in 1..Len(JobLabels)} \cup {AdaptorsFilename}
    /\ fnRes = [i \in 1..Len(JobLabels) |-> JobIdle]

\* Pipeline.py:478-516: job i enters preprocess_reads; writes are the files
\* its tools are to create, given the files that exist now.
JobPreprocessStart(i) ==
    /\ fnRes[i].pc = "idle"
    /\ \E ok \in BOOLEAN :
         LET r == preprocess_reads(JobSample(i), files, fnArg.cutadapt, ok) IN
         fnRes' = [fnRes EXCEPT ![i] = [pc |-> "running",
                                        writes |-> r.files \ files,
                                        exc |-> r.exc]]
    /\ UNCHANGED files
    /\ UNCHANGED stageFrame

\* The tools of job i have written their files; preprocess_reads returns or
\* has raised.
JobPreprocessFinish(i) ==
    /\ fnRes[i].pc = "running"
    /\ files' = files \cup fnRes[i].writes
    /\ fnRes' = [fnRes EXCEPT ![i].pc = "done"]
    /\ UNCHANGED stageFrame

NextJobs ==
    \/ \E i \in 1..Len(JobLabels) : JobPreprocessStart(i)
    \/ \E i \in 1..Len(JobLabels) : JobPreprocessFinish(i)

SpecJobs == InitJobs /\ [][NextJobs]_vars

\* ------------------ SpecReuse: the filters run again and again over the
\* files an earlier run left behind.  fnArg holds the filter and the disk:
\* bam, the records of the sample's alignment file, and out, the filter's
\* output file (<<>>: no such file, <<records>>: the file and what it holds).
\* fnRes is what the last call did.
ReuseAlignments ==
    {<<>>,
     ExampleReads,
     <<[qname |-> "Q1", ref |-> "chr1", NH |-> 1]>>,
     <<[qname |-> "Q1", ref |-> "chr1", NH |-> 1],
       [qname |-> "Q2", ref |-> "chr1", NH |-> 2],
       [qname |-> "Q2", ref |-> ChrRibo, NH |-> 2]>>,
     <<[qname |-> "Q2", ref |-> "chr1", NH |-> 1],
       [qname |-> "Q1", ref |-> ChrRibo, NH |-> 1]>>,
     <<[qname |-> "Q1", ref |-> ChrRibo, NH |-> 2],
       [qname |-> "Q1", ref |-> "chr1", NH |-> 2],
       [qname |-> "Q2", ref |-> "chr1", NH |-> 1]>>}

RecordsAt(reads, positions) ==
    [k \in 1..Len(positions) |-> reads[positions[k]]]

\* What an uninterrupted pass of the filter over the alignment file writes
\* (Pipeline.py:857-869, 796-820; the header declares chrRibo).
FilterOutputs(filter, reads) ==
    IF filter = "unique"
    THEN {RecordsAt(reads, unique_reads_from(reads, 1))}
    ELSE {RecordsAt(reads,
                    ribosub_reads_from(reads, ribo_read_ids(reads, ChrRibo), start)) :
            start \in SecondPassStarts(reads, ChrRibo)}

reuseFrame ==
    <<sched, samples, files, waitVars, runVars, sampleVars, stageUnderTest,
      callLog>>

InitReuse ==
    /\ FnIdle
    /\ files = {}
    /\ fnArg \in [filter : {"unique", "ribosub"},
                  bam : ReuseAlignments,
                  out : {<<>>}]
    /\ fnRes = <<>>

\* Pipeline.py:854-874, 794-826: one call that runs to its return.  The only
\* test is os.path.isfile on the output name.
FilterCall ==
    /\ IF fnArg.out # <<>>
       THEN /\ fnRes' = <<[skipped |-> TRUE, returned |-> TRUE]>>
            /\ UNCHANGED fnArg
       ELSE /\ \E written \in FilterOutputs(fnArg.filter, fnArg.bam) :
                 fnArg' = [fnArg EXCEPT !.out = <<written>>]
            /\ fnRes' = <<[skipped |-> FALSE, returned |-> TRUE]>>
    /\ UNCHANGED reuseFrame

\* Pipeline.py:857-865, 810-820: the output is opened under its final name
\* and the records are written to it one by one; a job that is killed in the
\* loop leaves the file with the records written so far.
FilterCallInterrupted ==
    /\ fnArg.out = <<>>
    /\ \E written \in FilterOutputs(fnArg.filter, fnArg.bam) :
         \E k \in 0..(Len(written) - 1) :
            fnArg' = [fnArg EXCEPT !.out = <<SubSeq(written, 1, k)>>]
    /\ fnRes' = <<[skipped |-> FALSE, returned |-> FALSE]>>
    /\ UNCHANGED reuseFrame

\* The alignment file is deleted and a later run maps again
\* (Pipeline.py:646-649: launch_and_wait unless the file exists); the files
\* under processed_bams stay.
AlignmentRecreated ==
    /\ \E reads \in ReuseAlignments \ {fnArg.bam} :
         fnArg' = [fnArg EXCEPT !.bam = reads]
    /\ fnRes' = <<>>
    /\ UNCHANGED reuseFrame

NextReuse == FilterCall \/ FilterCallInterrupted \/ AlignmentRecreated

SpecReuse == InitReuse /\ [][NextReuse]_vars

\* ------------------- SpecSettings: Pipeline.__init__ from the settings to
\* the samples.  fnArg is settings_info: has_paired says whether its mapping
\* section has the key "paired", has_sample_groups whether its data section
\* has "sample_groups", has_adaptors whether mapping has "adaptors_file".
\* Pipeline.py:351-376.  settings_info["mapping"]["paired"] is read with no
\* test for the key (355).  Pipeline.samples is empty at both calls, so the
\* loop over it (375-376) does nothing.
load_groups(settings) ==
    IF ~settings.has_paired THEN "KeyError"
    ELSE IF ~settings.paired THEN "none"
    ELSE IF ~settings.has_sample_groups THEN "SystemExit"
    ELSE "none"

\* Pipeline.py:316-348: is_paired_end and how the load ends.
load_pipeline_settings(settings, fs) ==
    LET is_paired_end == settings.has_paired /\ settings.paired
        seq_missing == \E i \in 1..Len(settings.sequence_files) :
                          ~IsFile(fs, EntryFile(i))
        raised == IF seq_missing THEN "SystemExit"
                  ELSE IF load_groups(settings) # "none"
                  THEN load_groups(settings)
                  ELSE IF settings.data_type = "clipseq" /\ ~settings.has_adaptors
                  THEN "SystemExit"
                  ELSE "none"
    IN  [pc |-> "settings", raised |-> raised, is_paired_end |-> is_paired_end,
         samples |-> <<>>]

InitSettings ==
    /\ FnIdle
    /\ fnArg \in [sequence_files : Manifests(MaxEntries),
                  sample_groups : {g \in SampleGroups(MaxEntries) : Len(g) <= 1},
                  has_sample_groups : BOOLEAN,
                  has_paired : BOOLEAN,
                  paired : BOOLEAN,
                  has_adaptors : BOOLEAN,
                  data_type : DataTypes]
    /\ ~fnArg.has_paired => ~fnArg.paired
    /\ ~fnArg.has_sample_groups => fnArg.sample_groups = <<>>
    /\ \E missing \in 0..Len(fnArg.sequence_files) :
          files = {EntryFile(i) : i \in 1..Len(fnArg.sequence_files)}
                      \ {EntryFile(missing)}
    /\ fnRes = <<>>

\* Pipeline.py:170  self.load_pipeline_settings()
LoadPipelineSettings ==
    /\ fnRes = <<>>
    /\ fnRes' = <<load_pipeline_settings(fnArg, files)>>
    /\ UNCHANGED fnFrame

\* Pipeline.py:185  self.load_pipeline_samples(), reached when the settings
\* loaded; it goes by is_paired_end.
LoadSamplesAfterSettings ==
    /\ fnRes # <<>>
    /\ fnRes[1].pc = "settings"
    /\ fnRes[1].raised = "none"
    /\ \E key_order \in KeyOrders(GroupKeys(fnArg.sample_groups)) :
          LET loaded == load_pipeline_samples(
                            [fnArg EXCEPT !.paired = fnRes[1].is_paired_end],
                            files, key_order)
          IN  fnRes' = <<[fnRes[1] EXCEPT !.pc = "samples",
                                          !.raised = loaded.raised,
                                          !.samples = loaded.samples]>>
    /\ UNCHANGED fnFrame

NextSettings == LoadPipelineSettings \/ LoadSamplesAfterSettings

SpecSettings == InitSettings /\ [][NextSettings]_vars

\* ====================================================================
\* The claims
\* ====================================================================

\* ---- C8: poll count of a wait.
\* The scheduler reports the job present on the first two polls and absent on
\* every later one.
PresentTwiceThenAbsent ==
    \A i \in 1..Len(pollLog) :
        pollLog[i] = IF i <= 2 THEN "present" ELSE "absent"

\* C8 as stated: with the job reported present for exactly 2 polls and absent
\* afterwards, waitUntilDone has returned after exactly 2 polls.
C8_ReturnsAfterTwoPolls ==
    (wpc = "returned" /\ PresentTwiceThenAbsent) => Len(pollLog) = 2

\* C8 (amended): with the job reported present for exactly 2 polls and absent
\* afterwards, waitUntilDone returns at its third poll, the first one that
\* reports the job absent, after exactly 2 sleeps, and raises nothing.
C8_ReturnsAtThirdPoll ==
    PresentTwiceThenAbsent =>
        /\ wpc # "raised"
        /\ Len(pollLog) <= 3
        /\ (wpc = "returned") <=> (Len(pollLog) = 3)
        /\ wpc = "returned" => Len(sleepLog) = 2

C8_Witness ==
    wpc = "returned" /\ pollLog = <<"present", "present", "absent">>

\* ---- C9: no timeout.
\* C9: once the scheduler would report the job absent, waitUntilDone
\* eventually returns (fair polling); and as long as every poll so far
\* reported the job present, it has not returned.
C9_NoTimeout ==
    /\ (wpc = "polling" /\ ~JobPresent(waitJob)) ~> (wpc = "returned")
    /\ []((\A i \in 1..Len(pollLog) : pollLog[i] = "present") => wpc = "polling")

C9_Witness ==
    /\ wpc = "returned"
    /\ Len(pollLog) = MaxPolls + 1
    /\ \A i \in 1..MaxPolls : pollLog[i] = "present"

\* ---- C10: poll errors are "still running".
\* C10: waitUntilDone has returned exactly when its last poll reported the job
\* as not existing; every other poll (job present, scheduler error or
\* malformed answer) was followed by one sleep of the fixed interval and
\* another poll; nothing is raised.
C10_PollErrorsKeepPolling ==
    /\ wpc \in {"idle", "polling", "returned"}
    /\ wpc = "returned" =>
          Len(pollLog) > 0 /\ pollLog[Len(pollLog)] = "absent"
    /\ \A i \in 1..Len(pollLog) :
          pollLog[i] = "absent" => i = Len(pollLog) /\ wpc = "returned"
    /\ Len(sleepLog) = Cardinality({i \in 1..Len(pollLog) : pollLog[i] # "absent"})
    /\ \A i \in 1..Len(sleepLog) : sleepLog[i] = waitSleep

C10_Witness ==
    /\ wpc = "returned"
    /\ \E i \in 1..Len(pollLog) : pollLog[i] = "error"
    /\ \E i \in 1..Len(pollLog) : pollLog[i] = "present"

\* ---- C3: Pipeline.run submits, waits, then aggregates.
Launches(n) == [i \in 1..n |-> "launch_job"]

RunLogUpTo(step) ==
    Launches(Len(samples)) \o <<"wait_on_jobs", "wait_returned">> \o
    (CASE step = "compile_qc_output"       -> <<>>
       [] step = "compile_analysis_output" -> <<"compile_qc_output">>
       [] OTHER -> <<"compile_qc_output", "compile_analysis_output">>)

\* C3: run submits one job per Sample, in sample order, each running the
\* per-sample sequence for that sample's label with the run's settings file and
\* output directory; it collects one handle per sample, calls wait_on_jobs
\* with all of them, and calls compile_qc_output and then
\* compile_analysis_output only after wait_on_jobs has returned.
C3_RunSubmitsWaitsThenCompiles ==
    /\ Len(job_ids) <= Len(samples)
    /\ \A i \in 1..Len(job_ids) :
          /\ job_ids[i] \in 1..Len(sched)
          /\ sched[job_ids[i]].cmd =
                [kind |-> "sample", label |-> samples[i],
                 settings |-> "settings.txt", outdir |-> "outdir"]
          /\ \A k \in 1..Len(job_ids) : k # i => job_ids[k] # job_ids[i]
    /\ Cardinality({j \in 1..Len(sched) : sched[j].cmd.kind = "sample"})
          = Len(job_ids)
    /\ rpc \in {"compile_qc_output", "compile_analysis_output", "done"} =>
          /\ Len(job_ids) = Len(samples)
          /\ waited = job_ids
          /\ ctlLog = RunLogUpTo(rpc)
    /\ \A i \in 1..Len(ctlLog) :
          ctlLog[i] \in {"compile_qc_output", "compile_analysis_output"} =>
              \E k \in 1..(i - 1) : ctlLog[k] = "wait_returned"

C3_Witness ==
    rpc = "done" /\ Len(samples) >= 2 /\ Len(sched) > Len(samples)

\* ---- C4: the Aggregator runs only when no sample job is left.
\* C4: while compile_qc_output or compile_analysis_output is reading the
\* samples' outputs, no sample job submitted by this run is present in the
\* scheduler.
C4_AggregatorAfterAllJobsGone ==
    Aggregating =>
        /\ \A i \in 1..Len(job_ids) : ~JobPresent(job_ids[i])
        /\ \A j \in 1..Len(sched) :
              sched[j].cmd.kind = "sample" => sched[j].state = "gone"

C4_Witness ==
    /\ Aggregating
    /\ Len(job_ids) >= 2
    /\ \E i \in 1..Len(job_ids) : sched[job_ids[i]].exit = "failed"

\* ---- C5: idempotence of the file-producing stages.
RanCount == Cardinality({k \in 1..Len(callLog) : callLog[k].ran})

\* C5 as stated: a stage invoked twice with the same inputs (all of them
\* present) and output path, its output absent at first, has run its
\* underlying operation exactly once.
C5_TwiceRunsOnce ==
    (/\ Len(callLog) = 2
     /\ CacheInputs \subseteq files
     /\ ~callLog[1].pre
     /\ \A k \in 1..2 : callLog[k].exc = "none")
    => RanCount = 1

\* C5 (amended): a stage invoked repeatedly with the same inputs and output
\* path, its output absent at first, runs its underlying operation exactly
\* once, at the first invocation, provided that invocation leaves the output
\* file in place.
C5_TwiceRunsOnceIfOutputLeft ==
    (/\ Len(callLog) >= 2
     /\ ~callLog[1].pre
     /\ callLog[1].left)
    => /\ callLog[1].ran
       /\ RanCount = 1

C5_Witness ==
    /\ Len(callLog) = 2
    /\ ~callLog[1].pre /\ callLog[1].ran /\ callLog[1].left
    /\ ~callLog[2].ran /\ callLog[2].exc = "none"
    /\ stageUnderTest = "trim_clip_adaptors"

\* ---- C1: the four stages of run_on_sample run in order, one at a time.
IsCall(e) == e.ev = "call"

\* C1: run_on_sample calls preprocess_reads, map_reads, run_qc, run_analysis
\* in that order, each at most once; a stage is called only when the one
\* before it has returned, and while a stage is running no other is called.
C1_StagesInOrder ==
    LET calls == SelectSeq(trace, IsCall)
        order == <<"preprocess_reads", "map_reads", "run_qc", "run_analysis">>
    IN  /\ Len(calls) <= 4
        /\ \A k \in 1..Len(calls) : calls[k].stage = order[k]
        /\ \A i \in 1..Len(trace) :
              /\ trace[i].ev = "call" => (i = 1 \/ trace[i - 1].ev = "return")
              /\ trace[i].ev # "call" =>
                    i > 1 /\ trace[i - 1] = Call(trace[i].stage)
              /\ trace[i].ev = "raise" => i = Len(trace)
        /\ spc \in {"map_wait", "map_post"} =>
              trace[Len(trace)] = Call("map_reads")
        /\ spc = "returned" => Len(trace) = 8

C1_Witness ==
    /\ spc = "returned"
    /\ Len(trace) = 8
    /\ launchCall.submit = "submitted"

\* ---- C2: a failing stage ends the run; the failure is logged and re-raised.
\* C2: once a stage has raised, no later stage is called; run_on_sample gives
\* the exception to logger.exception and raises that same exception to its
\* caller; it returns normally only when nothing was raised.
C2_FailureLoggedAndReraised ==
    /\ \A i \in 1..Len(trace) :
          trace[i].ev = "raise" =>
              i = Len(trace) /\ spc \in {"except", "raised"} /\ exc # "none"
    /\ exc # "none" => spc \in {"except", "raised"}
    /\ spc = "except" => exc # "none" /\ logged = <<>> /\ propagated = "none"
    /\ spc = "raised" => exc # "none" /\ logged = <<exc>> /\ propagated = exc
    /\ spc = "returned" => exc = "none" /\ logged = <<>> /\ propagated = "none"

C2_Witness ==
    /\ spc = "raised"
    /\ propagated = "SystemExit"
    /\ trace = <<Call("preprocess_reads"), Return("preprocess_reads"),
                 Call("map_reads"), Raise("map_reads")>>
    /\ launchCall.submit = "submitted"

\* ---- C6: alignment is never re-run.
AlignSubmissions ==
    IF launchCall.submit \in {"submitted", "failed"} THEN 1 ELSE 0

\* C6 as stated: with a supported aligner, once map_reads is past its
\* alignment step: if the target alignment file existed when map_reads began,
\* no alignment job was submitted; if it did not, exactly one was, and
\* post-processing starts only when the scheduler no longer has that job.
C6_AlignmentNeverRerun ==
    (cfg.mapper \in {"bowtie", "tophat"} /\ bamExisted # "-") =>
        /\ bamExisted = "yes" => AlignSubmissions = 0
        /\ bamExisted = "no" => AlignSubmissions = 1
        /\ spc = "map_post" =>
              \A j \in 1..Len(sched) :
                  sched[j].cmd.kind = "align" => sched[j].state = "gone"

\* ---- C7: the aligner invocation and its skip-if-exists path.
\* C7 as stated: with bowtie and with tophat, map_reads calls launch_and_wait
\* with a command built from the sample's current reads path, and with
\* unless_exists equal to the path it records as sample.bam_filename.
C7_LaunchUsesReadsAndBamPath ==
    (cfg.mapper \in {"bowtie", "tophat"} /\ bamExisted # "-") =>
        /\ launchCall.called
        /\ launchCall.reads = ReadsOf(sample)
        /\ (spc = "map_post" /\ mstep = 1) =>
              launchCall.unless_exists = sample.bam_filename

\* ---- C11: job submission parses the id or raises.
\* C11: launchJob (test=False) returns the job id written in the scheduler's
\* acknowledgment when the acknowledgment reads "Your job <id> ...", and for
\* every acknowledgment that does not start with "Your job " followed by an
\* integer it raises and returns no handle.
C11_LaunchJobParsesOrRaises ==
    fnRes # <<>> =>
        /\ \A n \in 0..20 :
              (StartsWithYourJob(fnArg) /\ fnArg[3] = Decimal(n)) =>
                  fnRes[1] = [raised |-> FALSE, returned |-> <<n>>]
        /\ (~StartsWithYourJob(fnArg)
              \/ fnArg[3] \in {<<>>, <<"abc">>, <<"7", "x">>, <<"Your">>,
                               <<"job">>, <<"job-array">>}) =>
                  fnRes[1] = [raised |-> TRUE, returned |-> <<>>]
        /\ fnRes[1].raised <=> fnRes[1].returned = <<>>

C11_Witness ==
    /\ fnArg = <<<<"Your">>, <<"job">>, <<"1", "2">>>>
    /\ fnRes = <<[raised |-> FALSE, returned |-> <<12>>]>>

\* ---- C12: unique_subset.
\* The records at the positions `written`, in the order written.
Written(reads, written) == [k \in 1..Len(written) |-> reads[written[k]]]

Increasing(q) == \A i, j \in 1..Len(q) : i < j => q[i] < q[j]

\* C12: when its output does not exist yet, get_unique_reads writes exactly
\* the input records whose NH multiplicity is 1, in input order; for the
\* multiplicities 1, 1, 2, 3, 1 it writes the first, second and fifth record.
C12_UniqueSubset ==
    (fnRes # <<>> /\ fnArg.filter = "unique") =>
        LET w == fnRes[1].written IN
        /\ Increasing(w)
        /\ {w[k] : k \in 1..Len(w)}
              = {i \in 1..Len(fnArg.reads) : fnArg.reads[i].NH = 1}
        /\ fnArg.reads = ExampleReads =>
              Written(fnArg.reads, w)
                  = <<ExampleReads[1], ExampleReads[2], ExampleReads[5]>>

C12_Witness ==
    /\ fnArg.filter = "unique"
    /\ fnArg.reads = ExampleReads
    /\ fnRes # <<>>
    /\ fnRes[1].written = <<1, 2, 5>>

\* ---- C13: reference_subtract.
\* The query names with at least one alignment to the excluded reference.
HitsExcluded(reads) ==
    {q \in {reads[i].qname : i \in 1..Len(reads)} :
        \E i \in 1..Len(reads) : reads[i].qname = q /\ reads[i].ref = ChrRibo}

\* C13 as stated: when its output does not exist yet, get_ribosub_bam_reads
\* writes exactly the records of the whole input file whose query name has no
\* alignment to the excluded reference anywhere in the file.
C13_ReferenceSubtract ==
    (fnRes # <<>> /\ fnArg.filter = "ribosub" /\ ~fnRes[1].raised) =>
        LET w == fnRes[1].written IN
        {w[k] : k \in 1..Len(w)}
            = {i \in 1..Len(fnArg.reads) :
                  fnArg.reads[i].qname \notin HitsExcluded(fnArg.reads)}

\* ---- C14: filtering never loses or duplicates reads.
\* C14 as stated: the output of get_unique_reads and of get_ribosub_bam_reads
\* is a subsequence of the input records (each written at most once, in input
\* order, nothing else written), and every input record that satisfies the
\* filter's retention condition is written.
C14_FilterKeepsEveryRetainedRead ==
    (fnRes # <<>> /\ ~fnRes[1].raised) =>
        LET w == fnRes[1].written
            reads == fnArg.reads
            retained(i) ==
                IF fnArg.filter = "unique" THEN reads[i].NH = 1
                ELSE reads[i].qname \notin HitsExcluded(reads)
        IN  /\ Increasing(w)
            /\ \A k \in 1..Len(w) : w[k] \in 1..Len(reads)
            /\ \A i \in 1..Len(reads) :
                  retained(i) => \E k \in 1..Len(w) : w[k] = i

\* ---- C15: the quantification merge is a strict inner join.
KeysOf(table) == {r.key : r \in table.rows}

AllPresent(sample_tables, n) ==
    \A i \in 1..Len(sample_tables) : sample_tables[i][n].present

\* C15: when load_rpkms returns for N >= 2 samples that all have the table,
\* the keys of the merged table are the keys common to all N per-sample
\* tables; a key missing from one sample's table is absent from the result,
\* never zero-filled, and every key kept carries the quantity column of every
\* sample.
C15_MergeIsInnerJoin ==
    (fnRes # <<>> /\ Len(fnArg) >= 2 /\ ~fnRes[1].raised) =>
        \A k \in 1..Len(TableNames) :
            LET n == TableNames[k] IN
            AllPresent(fnArg, n) =>
                LET merged == fnRes[1].rpkm_tables[n] IN
                /\ merged.present
                /\ KeysOf(merged)
                      = {g \in Genes :
                            \A i \in 1..Len(fnArg) : g \in KeysOf(fnArg[i][n])}
                /\ \A r \in merged.rows :
                      r.cols = [i \in 1..Len(fnArg) |-> i]

C15_Witness ==
    /\ Len(fnArg) = 3
    /\ KeysOf(fnArg[1]["ensGene"]) = {"G1", "G2"}
    /\ KeysOf(fnArg[2]["ensGene"]) = {"G1"}
    /\ KeysOf(fnArg[3]["ensGene"]) = {"G1", "G2"}
    /\ AllPresent(fnArg, "ensGene")
    /\ fnRes # <<>>
    /\ fnRes[1].rpkm_tables["ensGene"].rows
          = {[key |-> "G1", cols |-> <<1, 2, 3>>]}

\* ---- C16: tables absent in the first sample; single-sample runs.
\* C16: a table name whose table is absent in the first sample gets no
\* combined table, whatever the other samples have; in a single-sample run the
\* combined table of each available table name is that sample's table.
C16_FirstSampleDecides ==
    fnRes # <<>> =>
        \A k \in 1..Len(TableNames) :
            LET n == TableNames[k] IN
            /\ ~fnArg[1][n].present => fnRes[1].rpkm_tables[n] = NoTable
            /\ Len(fnArg) = 1 =>
                  /\ ~fnRes[1].raised
                  /\ fnRes[1].rpkm_tables[n] = fnArg[1][n]

C16_Witness ==
    /\ Len(fnArg) = 2
    /\ ~fnArg[1]["ensGene"].present
    /\ fnArg[2]["ensGene"].present
    /\ fnArg[2]["ensGene"].rows # {}
    /\ fnRes # <<>>
    /\ fnRes[1].rpkm_tables["ensGene"] = NoTable

\* ---- C17: run_qc computes the quality control at most once.
CountOf(calls, name) == Cardinality({i \in 1..Len(calls) : calls[i] = name})

C18_QuantificationNeverSkipped ==
    (fnArg.fn = "run_analysis" /\ fnRes # <<>>) =>
        /\ Len(fnRes[1].calls) >= 1
        /\ fnRes[1].calls[1] = "output_rpkm"
        /\ CountOf(fnRes[1].calls, "output_rpkm") = 1

C18_Witness ==
    /\ fnArg.fn = "run_analysis"
    /\ fnArg.rpkm_done
    /\ fnArg.ok
    /\ RpkmFile(fnArg.label) \in files
    /\ fnRes # <<>>
    /\ fnRes[1].calls[1] = "output_rpkm"
    /\ fnRes[1].exc = "none"

\* ---- C19: run_analysis returns the Sample for every sample type.
\* C19: when every external tool succeeds, run_analysis returns the Sample
\* without raising, whatever the sample type; for a clipseq sample it has by
\* then mapped the reads to the events, found the clusters and intersected
\* them with the events.
C19_AnalysisReturnsSample ==
    (fnArg.fn = "run_analysis" /\ fnArg.ok /\ fnRes # <<>>) =>
        /\ fnRes[1].exc = "none"
        /\ fnRes[1].sample = StageSample
        /\ fnArg.data_type = "clipseq" =>
              /\ CountOf(fnRes[1].calls, "output_events_mapping") = 1
              /\ CountOf(fnRes[1].calls, "output_clip_clusters") = 1
              /\ CountOf(fnRes[1].calls, "intersect_clusters_with_gff") = 1

\* ---- C20: the reads path after preprocess_reads, by sample type.
\* C20: on a single-end sample whose tools succeed, preprocess_reads returns;
\* for riboseq the reads path is then the trimmed file, for clipseq it is a
\* file produced after the adaptors were trimmed, for any other type it is
\* unchanged; the original sequence-file path is never modified.
C20_ReadsPathByType ==
    (fnArg.fn = "preprocess_reads" /\ fnArg.ok /\ ~fnArg.paired /\ fnRes # <<>>) =>
        LET r == fnRes[1]
            before == StageSample.rawdata[1]
            after == r.sample.rawdata[1]
        IN  /\ r.exc = "none"
            /\ after.seq_filename = before.seq_filename
            /\ fnArg.data_type = "riboseq" =>
                  after.reads_filename
                      = trim_polyA_ends(before.seq_filename, RawdataDir)
            /\ fnArg.data_type = "clipseq" =>
                  /\ after.reads_filename # before.reads_filename
                  /\ after.reads_filename \in files
            /\ fnArg.data_type \notin {"riboseq", "clipseq"} =>
                  after.reads_filename = before.reads_filename

\* ---- C21: de-duplication of clipseq alignments, between the two sortings.
Occurs(name) == \E i \in 1..Len(opLog) : opLog[i] = name

\* Every occurrence of later in the log has an occurrence of earlier before it.
Precedes(earlier, later) ==
    \A j \in 1..Len(opLog) :
        opLog[j] = later => \E i \in 1..(j - 1) : opLog[i] = earlier

MapReadsReturned == \E i \in 1..Len(trace) : trace[i] = Return("map_reads")

ClusterSteps ==
    {"output_events_mapping", "output_clip_clusters", "intersect_clusters_with_gff"}

\* C21: for a clipseq sample, rmdups_bam is applied to the primary and to the
\* unique alignment file only after each was sorted and indexed, its outputs
\* are sorted and indexed after that and before map_reads returns, hence
\* before any event-mapping or cluster step of run_analysis; for any other
\* sample no de-duplication runs and the rmdups path fields stay unset.
C21_DedupBetweenSorts ==
    /\ cfg.data_type = "clipseq" =>
          /\ Precedes("sort_bam", "rmdups_bam")
          /\ Precedes("sort_unique", "rmdups_unique")
          /\ Precedes("rmdups_bam", "sort_rmdups")
          /\ Precedes("rmdups_unique", "sort_rmdups_unique")
          /\ \A op \in ClusterSteps :
                Precedes("sort_rmdups", op) /\ Precedes("sort_rmdups_unique", op)
          /\ MapReadsReturned =>
                /\ Occurs("sort_rmdups") /\ Occurs("sort_rmdups_unique")
                /\ sample.rmdups_bam_filename =
                      sort_and_index_bam(files,
                          rmdups_bam(files, sample.bam_filename,
                                     sample.processed_bam_dir, TRUE).path,
                          TRUE).path
                /\ sample.rmdups_unique_bam_filename =
                      sort_and_index_bam(files,
                          rmdups_bam(files, sample.unique_bam_filename,
                                     sample.processed_bam_dir, TRUE).path,
                          TRUE).path
    /\ cfg.data_type # "clipseq" =>
          /\ ~Occurs("rmdups_bam") /\ ~Occurs("rmdups_unique")
          /\ ~Occurs("sort_rmdups") /\ ~Occurs("sort_rmdups_unique")
          /\ sample.rmdups_bam_filename = NonePath
          /\ sample.rmdups_unique_bam_filename = NonePath

C21_Witness ==
    /\ cfg.data_type = "clipseq"
    /\ MapReadsReturned
    /\ Occurs("output_events_mapping")
    /\ Precedes("sort_bam", "rmdups_bam")
    /\ Occurs("sort_rmdups_unique")
    /\ IsFile(files, sample.rmdups_bam_filename)
    /\ IsFile(files, IndexOf(sample.rmdups_unique_bam_filename))

\* ---- C22: the Samples of a single-end pipeline.
\* C22: in single-end mode, when the samples are loaded, every manifest entry
\* has yielded one Sample, in manifest order, that carries the entry's label,
\* is not paired, has the sample_type of its SampleRawdata, and whose reads
\* path equals its sequence-file path, the entry's file.
C22_OneSamplePerEntry ==
    (fnRes # <<>> /\ ~fnArg.paired /\ fnRes[1].raised = "none") =>
        LET loaded == fnRes[1].samples IN
        /\ Len(loaded) = Len(fnArg.sequence_files)
        /\ \A i \in 1..Len(loaded) :
              /\ loaded[i].label = fnArg.sequence_files[i]
              /\ ~loaded[i].paired
              /\ Len(loaded[i].rawdata) = 1
              /\ loaded[i].sample_type = loaded[i].rawdata[1].sample_type
              /\ loaded[i].sample_type = fnArg.data_type
              /\ loaded[i].rawdata[1].seq_filename = EntryFile(i)
              /\ loaded[i].rawdata[1].reads_filename = EntryFile(i)

C22_Witness ==
    /\ ~fnArg.paired
    /\ fnArg.sequence_files = <<"s2", "s1">>
    /\ fnRes # <<>>
    /\ fnRes[1].raised = "none"
    /\ Len(fnRes[1].samples) = 2
    /\ fnRes[1].samples[1].label = "s2"
    /\ ~fnRes[1].samples[1].paired

\* ---- C23: the Samples of a paired-end pipeline.
LoadedPaired == fnRes # <<>> /\ fnArg.paired /\ fnRes[1].raised = "none"

\* One Sample per group of the group definitions, labelled with the group and
\* paired.
OneSamplePerGroup ==
    LET loaded == fnRes[1].samples
        keys == GroupKeys(fnArg.sample_groups)
    IN  /\ Len(loaded) = Cardinality(keys)
        /\ \A g \in keys : \E i \in 1..Len(loaded) : loaded[i].label = g
        /\ \A i \in 1..Len(loaded) : loaded[i].label \in keys /\ loaded[i].paired

\* The manifest entry a SampleRawdata was made from.
EntryOf(rawdata) ==
    CHOOSE i \in 1..Len(fnArg.sequence_files) : rawdata.seq_filename = EntryFile(i)

\* C23 as stated: in paired mode there is one paired Sample per group,
\* labelled with the group, whose rawdata are in manifest order.
C23_GroupRawdataInManifestOrder ==
    LoadedPaired =>
        /\ OneSamplePerGroup
        /\ \A i \in 1..Len(fnRes[1].samples) :
              LET rawdata == fnRes[1].samples[i].rawdata IN
              \A j, k \in 1..Len(rawdata) :
                  j < k => EntryOf(rawdata[j]) <= EntryOf(rawdata[k])

\* C23: in paired mode there is one paired Sample per group, labelled with
\* the group, whose rawdata has one SampleRawdata per member the group
\* definitions list for the group, in the order they list them: the k-th is
\* the one made from the last manifest entry labelled with the k-th member.
C23_GroupRawdataInGroupOrder ==
    LoadedPaired =>
        /\ OneSamplePerGroup
        /\ \A i \in 1..Len(fnRes[1].samples) :
              LET rawdata == fnRes[1].samples[i].rawdata
                  members == group_to_samples(fnArg.sample_groups,
                                              fnRes[1].samples[i].label)
              IN  /\ Len(rawdata) = Len(members)
                  /\ \A k \in 1..Len(members) :
                        /\ rawdata[k].label = members[k]
                        /\ fnArg.sequence_files[EntryOf(rawdata[k])] = members[k]
                        /\ \A e \in 1..Len(fnArg.sequence_files) :
                              fnArg.sequence_files[e] = members[k]
                                  => e <= EntryOf(rawdata[k])

C23_Witness ==
    /\ fnArg.paired
    /\ fnArg.sequence_files = <<"s1", "s2">>
    /\ fnArg.sample_groups = <<GroupDef("G1", <<"s2", "s1">>)>>
    /\ fnRes # <<>>
    /\ fnRes[1].raised = "none"
    /\ Len(fnRes[1].samples) = 1
    /\ fnRes[1].samples[1].label = "G1"
    /\ fnRes[1].samples[1].rawdata[1].label = "s2"
    /\ fnRes[1].samples[1].rawdata[2].label = "s1"

\* ---- C24: the files two concurrent sample jobs write.
\* C24: the files the job of one Sample writes while preprocessing and the
\* files the job of another Sample writes are disjoint.
C24_JobsWriteDisjointFiles ==
    \A i, j \in 1..Len(JobLabels) :
        i # j => fnRes[i].writes \cap fnRes[j].writes = {}

\* ---- C25: a failed sample job and its siblings.
SomeJobFailed ==
    \E j \in 1..Len(sched) : sched[j].cmd.kind = "sample" /\ sched[j].exit = "failed"

\* The controller is past wait_on_jobs.
PastWait == rpc \in {"compile_qc_output", "compile_analysis_output", "done"}

\* A step changes at most one job of the scheduler, and only by that job's
\* own progress: no job is removed while queued and none because another
\* one ended.
OnlyOwnProgress ==
    /\ Len(sched') >= Len(sched)
    /\ \A j \in 1..Len(sched) :
          sched'[j] # sched[j] =>
              /\ sched'[j].state = JobProgress(j)
              /\ \A k \in 1..Len(sched) : k # j => sched'[k] = sched[k]

\* C25: whether or not a sample's job failed, no other job is cancelled or
\* altered, and the controller gets past wait_on_jobs, to the aggregation,
\* only when it has submitted a job for every sample and every one of these
\* jobs has left the scheduler.
C25_SiblingJobsUnaffected ==
    /\ [](PastWait =>
            /\ Len(job_ids) = Len(samples)
            /\ waited = job_ids
            /\ \A i \in 1..Len(job_ids) : ~JobPresent(job_ids[i]))
    /\ [][OnlyOwnProgress]_vars

C25_Witness ==
    /\ Len(job_ids) = 2
    /\ sched[job_ids[1]].exit = "failed"
    /\ sched[job_ids[2]].exit = "ok"
    /\ rpc = "done"
    /\ ctlLog[Len(ctlLog)] = "compile_analysis_output"

\* ---- C26: run_on_sample for a label no Sample carries.
NoSuchSample == \A i \in 1..Len(samples) : samples[i] # label

\* C26: when the label matches no Sample, run_on_sample calls none of its
\* four stages and none of their tools, and ends by raising SystemExit, the
\* exit with status 1.
C26_MissingSampleExits ==
    NoSuchSample =>
        /\ trace = <<>>
        /\ opLog = <<>>
        /\ ~launchCall.called
        /\ spc \in {"start", "except", "raised"}
        /\ spc = "raised" => propagated = "SystemExit"

C26_Witness ==
    /\ NoSuchSample
    /\ spc = "raised"
    /\ propagated = "SystemExit"
    /\ logged = <<"SystemExit">>
    /\ trace = <<>>

\* ---- C27: trim_clip_adaptors without the adaptors file.
TrimWithoutAdaptors ==
    stageUnderTest = "trim_clip_adaptors" /\ ~IsFile(files, AdaptorsFilename)

\* C27 as stated: whenever the adaptors file does not exist,
\* trim_clip_adaptors ends the process and returns no path.
C27_NoAdaptorsAlwaysFatal ==
    TrimWithoutAdaptors =>
        \A k \in 1..Len(callLog) : callLog[k].exc = "SystemExit"

\* C27: when the adaptors file does not exist, trim_clip_adaptors ends the
\* process, running nothing and returning no path, unless the trimmed output
\* file already exists: then it returns that file's path and runs nothing.
C27_NoAdaptorsFatalUnlessTrimmed ==
    TrimWithoutAdaptors =>
        \A k \in 1..Len(callLog) :
            /\ ~callLog[k].ran
            /\ callLog[k].left = callLog[k].pre
            /\ callLog[k].exc = IF callLog[k].pre THEN "none" ELSE "SystemExit"

C27_Witness ==
    /\ TrimWithoutAdaptors
    /\ SeqFile("a", "1") \in files
    /\ Len(callLog) >= 1
    /\ ~callLog[1].pre
    /\ callLog[1].exc = "SystemExit"

\* ---- C28: the order of the post-processing of map_reads.
PostProcessingOrder ==
    <<"index_bam", "make_dir", "get_unique_reads", "get_ribosub_bam_reads",
      "sort_bam", "sort_unique", "sort_ribosub">>

ProcessedBam(lbl, kind) ==
    Path(MappingDir \o <<lbl, "processed_bams">>,
         <<"accepted_hits", ".", kind, ".", "sorted", ".", "bam">>)

AlignmentMissing ==
    /\ launchCall.called
    /\ mstep >= 1
    /\ ~IsFile(files, TargetAlignmentFile(sample, cfg.mapper))

DerivedDirs ==
    {MappingDir \o <<label>>, MappingDir \o <<label, "processed_bams">>}

\* C29: when the alignment file is absent after the alignment step, the run
\* ends at get_unique_reads with SystemExit: no file is ever created in the
\* sample's mapping directories, and neither run_qc nor run_analysis is
\* called.
C29_MissingAlignmentEndsAtUnique ==
    AlignmentMissing =>
        /\ mstep <= 3
        /\ \A i \in 1..Len(opLog) :
              opLog[i] \notin {"get_ribosub_bam_reads", "sort_bam", "sort_unique",
                               "sort_ribosub", "rmdups_bam", "rmdups_unique",
                               "sort_rmdups", "sort_rmdups_unique",
                               "postprocess_clip_bams", "compute_qc",
                               "output_qc", "output_rpkm"}
        /\ \A f \in files : f.dir \notin DerivedDirs
        /\ \A i \in 1..Len(trace) :
              trace[i].stage \notin {"run_qc", "run_analysis"}
        /\ Occurs("get_unique_reads") =>
              /\ spc \in {"except", "raised"}
              /\ exc = "SystemExit"
              /\ trace[Len(trace)] = Raise("map_reads")
        /\ sample.unique_bam_filename = NonePath

C29_Witness ==
    /\ AlignmentMissing
    /\ launchCall.submit = "submitted"
    /\ Occurs("index_bam")
    /\ opLog[Len(opLog)] = "get_unique_reads"
    /\ spc = "raised"
    /\ propagated = "SystemExit"

\* ---- C30: filters that find nothing.
AllPositions(reads) == [i \in 1..Len(reads) |-> i]

\* C30: when no record is aligned to the excluded reference,
\* get_ribosub_bam_reads warns, writes every input record in input order and
\* returns; when no record has NH = 1, get_unique_reads warns, writes an
\* empty output and returns.
C30_ZeroHitsWarnAndContinue ==
    fnRes # <<>> =>
        /\ (fnArg.filter = "ribosub"
             /\ \A i \in 1..Len(fnArg.reads) : fnArg.reads[i].ref # ChrRibo) =>
               /\ ~fnRes[1].raised
               /\ fnRes[1].warned
               /\ fnRes[1].written = AllPositions(fnArg.reads)
        /\ (fnArg.filter = "unique"
             /\ \A i \in 1..Len(fnArg.reads) : fnArg.reads[i].NH # 1) =>
               /\ ~fnRes[1].raised
               /\ fnRes[1].warned
               /\ fnRes[1].written = <<>>

\* ---- C31: the name rmdups_bam gives its output.
\* The name the claim expects for an input name: ".bam" and ".sorted" removed,
\* ".rmdups.bam" appended.
NormalizedRmdupsName(name) ==
    Remove(Remove(name, BamExt), <<".", "sorted">>) \o <<".", "rmdups", ".", "bam">>

LastOp(op) == opLog # <<>> /\ opLog[Len(opLog)] = op

\* C31: the path rmdups_bam returns is output_dir joined with the input
\* basename stripped of ".bam" and of the ".sorted" marker and followed by
\* ".rmdups.bam"; the paths returned for a sample's primary and unique files
\* are distinct.
C31_RmdupsNameNormalized ==
    /\ LastOp("rmdups_bam") =>
          sample.rmdups_bam_filename =
              Path(sample.processed_bam_dir,
                   NormalizedRmdupsName(sample.bam_filename.name))
    /\ LastOp("rmdups_unique") =>
          /\ sample.rmdups_unique_bam_filename =
                 Path(sample.processed_bam_dir,
                      NormalizedRmdupsName(sample.unique_bam_filename.name))
          /\ sample.rmdups_unique_bam_filename # sample.rmdups_bam_filename

\* ---- C32: the filters' outputs as a cache.
\* C32: whenever a filter skips its work because its output file exists, the
\* file holds the complete filtered result of the current alignment file.
C32_SkippedOutputIsComplete ==
    (fnRes # <<>> /\ fnRes[1].skipped) =>
        fnArg.out[1] \in FilterOutputs(fnArg.filter, fnArg.bam)

\* ---- C33: which Sample a submitted job processes.
\* The Sample (its position in Pipeline.samples) that the i-th submitted job
\* works on: run_on_sample looks its label argument up.
SampleOfJob(i) == get_sample_by_label(sched[job_ids[i]].cmd.label)

\* C33: the job submitted for the i-th Sample of Pipeline.samples processes
\* that Sample, so no two jobs of a run process the same Sample.
C33_JobProcessesOwnSample ==
    /\ \A i \in 1..Len(job_ids) : SampleOfJob(i) = i
    /\ \A i, k \in 1..Len(job_ids) : i # k => SampleOfJob(i) # SampleOfJob(k)

\* ---- C34: what becomes of the manifest's sequence files.
InSomeSample(seq_filename, loaded) ==
    \E i \in 1..Len(loaded) :
        \E k \in 1..Len(loaded[i].rawdata) :
            loaded[i].rawdata[k].seq_filename = seq_filename

MembersInManifest ==
    \A i \in 1..Len(fnArg.sample_groups) :
        \A k \in 1..Len(fnArg.sample_groups[i].members) :
            \E e \in 1..Len(fnArg.sequence_files) :
                fnArg.sequence_files[e] = fnArg.sample_groups[i].members[k]

\* C34: after load_pipeline_samples every sequence file of the manifest is in
\* the rawdata of some Sample, in single-end and in paired mode, and the
\* construction does not fail on a group member that the manifest labels.
C34_NoInputDropped ==
    fnRes # <<>> =>
        /\ fnRes[1].raised = "none" =>
              \A e \in 1..Len(fnArg.sequence_files) :
                  InSomeSample(EntryFile(e), fnRes[1].samples)
        /\ (fnArg.paired /\ fnArg.has_sample_groups /\ MembersInManifest
             /\ \A e \in 1..Len(fnArg.sequence_files) : IsFile(files, EntryFile(e)))
              => fnRes[1].raised = "none"

\* ---- C35: aggregation with tables missing from some samples.
\* C35: with two samples or more, whichever of them have or lack a table,
\* load_rpkms ends without raising, and a table that the first sample has
\* and a later one lacks does not keep the other names from being handled.
C35_PartialTablesTolerated ==
    (fnRes # <<>> /\ Len(fnArg) >= 2) =>
        /\ ~fnRes[1].raised
        /\ \A k \in 1..Len(TableNames) :
              (\A i \in 1..Len(fnArg) : fnArg[i][TableNames[k]].present) =>
                  fnRes[1].rpkm_tables[TableNames[k]].present

\* ---- C36: preprocess_reads on single and grouped samples.
\* C36: for every sample type and paired flag preprocess_reads returns the
\* Sample without raising when its tools succeed, and for a paired
\* ribosome-profiling Sample the reads path of each member is the trimmed
\* file of that member, for a paired standard Sample it is left alone.
C36_PreprocessHandlesGroups ==
    (fnArg.fn = "preprocess_reads" /\ fnArg.ok /\ fnArg.cutadapt /\ fnRes # <<>>) =>
        LET r == fnRes[1] IN
        /\ r.exc = "none"
        /\ r.sample.label = StageSample.label
        /\ fnArg.paired =>
              \A k \in 1..Len(StageSample.rawdata) :
                  /\ fnArg.data_type = "riboseq" =>
                        r.sample.rawdata[k].reads_filename =
                            trim_polyA_ends(StageSample.rawdata[k].seq_filename,
                                            RawdataDir)
                  /\ fnArg.data_type = "rnaseq" =>
                        r.sample.rawdata[k].reads_filename =
                            StageSample.rawdata[k].seq_filename

\* ---- C37: settings without the paired flag.
\* C37: with no "paired" key in the mapping section (and nothing else
\* missing) the settings load ends without raising and with is_paired_end
\* false, whether or not a group map is given, and the samples loaded are one
\* per manifest entry.
C37_AbsentPairedMeansSingleEnd ==
    (/\ fnRes # <<>>
     /\ ~fnArg.has_paired
     /\ \A e \in 1..Len(fnArg.sequence_files) : IsFile(files, EntryFile(e))
     /\ fnArg.data_type = "clipseq" => fnArg.has_adaptors) =>
        /\ fnRes[1].raised = "none"
        /\ ~fnRes[1].is_paired_end
        /\ fnRes[1].pc = "samples" =>
              Len(fnRes[1].samples) = Len(fnArg.sequence_files)

====
